---- MODULE Spec2Model ----
(***************************************************************************)
(* Tic-Tac-Toe decision engine: rules (gameLogic), the alpha-beta search   *)
(* (alphaBeta) and the evaluation functions (classicalEval, mlEval).       *)
(*                                                                         *)
(* Scores are kept in HALF POINTS: the evaluators of mlEval use weights    *)
(* with a fractional part of .5 (bias 0.5, 2.5, 3.5, 4.5), so every score  *)
(* of the program is an integer number of half points.  Pts(n) is n points *)
(* in that unit; all comparisons of the code are unaffected by the scale.  *)
(***************************************************************************)
EXTENDS Integers, Sequences, FiniteSets, TLC

null == "null"
Marks == {"X", "O"}
Cells == 0..8

Pts(n) == 2 * n

\* bestMove = null, "no move": a value outside the cell indices 0..8
nullMove == -1

\* JavaScript's Infinity: larger than every score the program computes.
Infinity == 1000000

Max(a, b) == IF a >= b THEN a ELSE b
Min(a, b) == IF a <= b THEN a ELSE b

(***************************************************************************)
(* gameLogic                                                               *)
(***************************************************************************)
createEmptyBoard == [i \in Cells |-> null]

\* board.map(...).filter(...): the empty cells in ascending index order
getLegalMoves(board) ==
  SelectSeq(<<0, 1, 2, 3, 4, 5, 6, 7, 8>>, LAMBDA index : board[index] = null)

\* mutant: a makeMove that refuses to overwrite an occupied cell
makeMoveKeep(board, position, player) ==
  IF board[position] = null THEN [board EXCEPT ![position] = player] ELSE board

\* newBoard[position] = player, with no check of the cell's old content
makeMove(board, position, player) == [board EXCEPT ![position] = player]

winPatterns ==
  << <<0, 1, 2>>, <<3, 4, 5>>, <<6, 7, 8>>,
     <<0, 3, 6>>, <<1, 4, 7>>, <<2, 5, 8>>,
     <<0, 4, 8>>, <<2, 4, 6>> >>

\* mutant: the third cell of the pattern is not compared
CompleteTwo(board, p) ==
  board[p[1]] # null /\ board[p[1]] = board[p[2]]

\* board[a] && board[a] === board[b] && board[a] === board[c]
Complete(board, p) ==
  board[p[1]] # null /\ board[p[1]] = board[p[2]] /\ board[p[1]] = board[p[3]]

\* the first complete pattern in winPatterns order, or found = FALSE (null)
checkWinner(board) ==
  LET hits == SelectSeq(winPatterns, LAMBDA p : Complete(board, p)) IN
  IF hits = <<>> THEN [found |-> FALSE, winner |-> null, line |-> <<>>]
  ELSE [found |-> TRUE, winner |-> board[hits[1][1]], line |-> hits[1]]

isBoardFull(board) == \A i \in Cells : board[i] # null

isTerminal(board) ==
  LET winner == checkWinner(board) IN
  IF winner.found THEN [terminal |-> TRUE, winner |-> winner.winner, line |-> winner.line]
  ELSE IF isBoardFull(board) THEN [terminal |-> TRUE, winner |-> "draw", line |-> <<>>]
  ELSE [terminal |-> FALSE, winner |-> null, line |-> <<>>]

getOpponent(player) == IF player = "X" THEN "O" ELSE "X"

(***************************************************************************)
(* Line counting shared by the evaluators and the feature extractors:      *)
(* lineValues.filter(v => v === mark).length for the k-th line             *)
(***************************************************************************)
lines == winPatterns

CountIn(board, k, mark) ==
  (IF board[lines[k][1]] = mark THEN 1 ELSE 0)
  + (IF board[lines[k][2]] = mark THEN 1 ELSE 0)
  + (IF board[lines[k][3]] = mark THEN 1 ELSE 0)

RECURSIVE SumSeq(_)
SumSeq(s) == IF s = <<>> THEN 0 ELSE Head(s) + SumSeq(Tail(s))

\* the count of `mark` in each of the 8 lines
LineCounts(board, mark) ==
  << CountIn(board, 1, mark), CountIn(board, 2, mark), CountIn(board, 3, mark),
     CountIn(board, 4, mark), CountIn(board, 5, mark), CountIn(board, 6, mark),
     CountIn(board, 7, mark), CountIn(board, 8, mark) >>

\* number of lines with exactly n marks of one kind (counts) and e empty cells
LinesWith(counts, emptyCounts, n, e) ==
  Cardinality({k \in 1..8 : counts[k] = n /\ emptyCounts[k] = e})

corners == <<0, 2, 6, 8>>
edges == <<1, 3, 5, 7>>

\* cells.filter(i => board[i] === mark).length
CountCells(board, cells, mark) ==
  Cardinality({j \in 1..Len(cells) : board[cells[j]] = mark})

(***************************************************************************)
(* classicalEval.js, first variant ("human logic")                         *)
(***************************************************************************)
\* the score magnitudes of the first variant, in points
ClassicalWeights ==
  [ terminal |-> 1000, opponentTwoInRow |-> 600, playerTwoInRow |-> 500,
    fork |-> 300, opponentFork |-> 400, center |-> 40, corner |-> 20,
    playerOneInRow |-> 10, opponentOneInRow |-> 12, edge |-> 5 ]

classicalEvaluate(board, player) ==
  LET terminalState == isTerminal(board)
      opponent == getOpponent(player)
      playerCount == LineCounts(board, player)
      opponentCount == LineCounts(board, opponent)
      emptyCount == LineCounts(board, null)
      canWinNow == LinesWith(playerCount, emptyCount, 2, 1)
      mustBlockNow == LinesWith(opponentCount, emptyCount, 2, 1)
      lineScore == ClassicalWeights.playerTwoInRow * canWinNow
                   - ClassicalWeights.opponentTwoInRow * mustBlockNow
                   + ClassicalWeights.playerOneInRow
                       * LinesWith(playerCount, emptyCount, 1, 2)
                   - ClassicalWeights.opponentOneInRow
                       * LinesWith(opponentCount, emptyCount, 1, 2)
      forkScore == (IF canWinNow >= 2 THEN ClassicalWeights.fork ELSE 0)
                   - (IF mustBlockNow >= 2 THEN ClassicalWeights.opponentFork ELSE 0)
      centerScore == IF board[4] = player THEN ClassicalWeights.center
                     ELSE IF board[4] = opponent THEN -ClassicalWeights.center
                     ELSE 5
      cornerScore == ClassicalWeights.corner * CountCells(board, corners, player)
                     - ClassicalWeights.corner * CountCells(board, corners, opponent)
      oppositeScore ==
          (IF (board[0] = player /\ board[8] = player)
              \/ (board[2] = player /\ board[6] = player) THEN 50 ELSE 0)
        - (IF (board[0] = opponent /\ board[8] = opponent)
              \/ (board[2] = opponent /\ board[6] = opponent) THEN 60 ELSE 0)
      edgeScore == ClassicalWeights.edge * CountCells(board, edges, player)
                   - ClassicalWeights.edge * CountCells(board, edges, opponent)
      patternScore == IF board[4] = player
                      THEN 15 * CountCells(board, corners, player) ELSE 0
      playerWinningLines ==
        Cardinality({k \in 1..8 : playerCount[k] > 0 /\ opponentCount[k] = 0})
      opponentWinningLines ==
        Cardinality({k \in 1..8 : opponentCount[k] > 0 /\ playerCount[k] = 0})
  IN IF terminalState.terminal
     THEN (IF terminalState.winner = player THEN Pts(ClassicalWeights.terminal)
           ELSE IF terminalState.winner = opponent THEN Pts(-ClassicalWeights.terminal)
           ELSE 0)
     ELSE Pts(lineScore + forkScore + centerScore + cornerScore + oppositeScore
              + edgeScore + patternScore
              + 3 * playerWinningLines - 3 * opponentWinningLines)

(***************************************************************************)
(* classicalEval.js, second variant with evaluateForks                     *)
(***************************************************************************)
\* the score magnitudes of the second variant, in points
ClassicalWeights2 ==
  [ terminal |-> 100, opponentTwoInRow |-> 20, playerTwoInRow |-> 15,
    fork |-> 25, opponentFork |-> 30, center |-> 8, corner |-> 4,
    playerOneInRow |-> 3, opponentOneInRow |-> 3, edge |-> 2 ]

evaluateForks(board, player) ==
  LET opponent == getOpponent(player)
      playerCount == LineCounts(board, player)
      opponentCount == LineCounts(board, opponent)
      emptyCount == LineCounts(board, null)
      playerThreats == LinesWith(playerCount, emptyCount, 2, 1)
      opponentThreats == LinesWith(opponentCount, emptyCount, 2, 1)
  IN (IF playerThreats >= 2 THEN ClassicalWeights2.fork ELSE 0)
     - (IF opponentThreats >= 2 THEN ClassicalWeights2.opponentFork ELSE 0)

classicalEvaluate2(board, player) ==
  LET terminalState == isTerminal(board)
      opponent == getOpponent(player)
      playerCount == LineCounts(board, player)
      opponentCount == LineCounts(board, opponent)
      emptyCount == LineCounts(board, null)
      centerScore == IF board[4] = player THEN ClassicalWeights2.center
                     ELSE IF board[4] = opponent THEN -ClassicalWeights2.center ELSE 0
      cornerScore == ClassicalWeights2.corner * CountCells(board, corners, player)
                     - ClassicalWeights2.corner * CountCells(board, corners, opponent)
      edgeScore == ClassicalWeights2.edge * CountCells(board, edges, player)
                   - ClassicalWeights2.edge * CountCells(board, edges, opponent)
      lineScore == ClassicalWeights2.playerTwoInRow
                       * LinesWith(playerCount, emptyCount, 2, 1)
                   - ClassicalWeights2.opponentTwoInRow
                       * LinesWith(opponentCount, emptyCount, 2, 1)
                   + ClassicalWeights2.playerOneInRow
                       * LinesWith(playerCount, emptyCount, 1, 2)
                   - ClassicalWeights2.opponentOneInRow
                       * LinesWith(opponentCount, emptyCount, 1, 2)
                   + 100 * LinesWith(playerCount, emptyCount, 3, 0)
                   - 100 * LinesWith(opponentCount, emptyCount, 3, 0)
  IN IF terminalState.terminal
     THEN (IF terminalState.winner = player THEN Pts(ClassicalWeights2.terminal)
           ELSE IF terminalState.winner = opponent THEN Pts(-ClassicalWeights2.terminal)
           ELSE 0)
     ELSE Pts(centerScore + cornerScore + edgeScore + lineScore
              + evaluateForks(board, player))

(***************************************************************************)
(* gameLogic.extractFeatures: features from the evaluated player's side    *)
(***************************************************************************)
extractFeatures(board, player) ==
  LET opponent == getOpponent(player)
      playerCount == LineCounts(board, player)
      opponentCount == LineCounts(board, opponent)
      emptyCount == LineCounts(board, null)
  IN
  [ playerMarks      |-> CountCells(board, <<0, 1, 2, 3, 4, 5, 6, 7, 8>>, player),
    opponentMarks    |-> CountCells(board, <<0, 1, 2, 3, 4, 5, 6, 7, 8>>, opponent),
    playerTwoInRow   |-> LinesWith(playerCount, emptyCount, 2, 1),
    opponentTwoInRow |-> LinesWith(opponentCount, emptyCount, 2, 1),
    playerOneInRow   |-> LinesWith(playerCount, emptyCount, 1, 2),
    opponentOneInRow |-> LinesWith(opponentCount, emptyCount, 1, 2),
    centerControl    |-> IF board[4] = player THEN 1
                         ELSE IF board[4] = opponent THEN -1 ELSE 0,
    playerCorners    |-> CountCells(board, corners, player),
    opponentCorners  |-> CountCells(board, corners, opponent) ]

\* featureExtractor.extractDatasetFeatures: always from X's side
extractDatasetFeatures(board, player) ==
  LET xInLine == LineCounts(board, "X")
      oInLine == LineCounts(board, "O")
      emptyInLine == LineCounts(board, null)
  IN
  << CountCells(board, <<0, 1, 2, 3, 4, 5, 6, 7, 8>>, "X"),
     CountCells(board, <<0, 1, 2, 3, 4, 5, 6, 7, 8>>, "O"),
     LinesWith(xInLine, emptyInLine, 2, 1),
     LinesWith(oInLine, emptyInLine, 2, 1),
     IF board[4] = "X" THEN 1 ELSE 0,
     CountCells(board, corners, "X") >>

\* featureExtractor.adjustFeaturesForPlayer (features[k] is features[k + 1] here)
adjustFeaturesForPlayer(features, player) ==
  IF player = "O"
  THEN << features[2], features[1], features[4], features[3],
          IF features[5] = 1 THEN 0
          ELSE IF features[5] = 0 /\ features[1] + features[2] >= 1 THEN 1 ELSE 0,
          features[6] >>
  ELSE features

(***************************************************************************)
(* mlEval.js (symmetric features).  TRAINED_WEIGHTS in half points:        *)
(* 2.5, -2.5, 18.0, -22.0, 4.5, -4.5, 6.0, 3.5, -3.5, bias 0.5             *)
(***************************************************************************)
TRAINED_WEIGHTS ==
  [ playerMarks |-> 5, opponentMarks |-> -5,
    playerTwoInRow |-> 36, opponentTwoInRow |-> -44,
    playerOneInRow |-> 9, opponentOneInRow |-> -9,
    centerControl |-> 12, playerCorners |-> 7, opponentCorners |-> -7,
    bias |-> 1 ]

\* mutant: the score is clamped to the terminal values instead
Clamp100(score) == Max(Pts(-100), Min(Pts(100), score))

\* Math.max(-90, Math.min(90, score)), score in half points
Clamp90(score) == Max(Pts(-90), Min(Pts(90), score))

TerminalEval(terminalState, player) ==
  IF terminalState.winner = player THEN Pts(100)
  ELSE IF terminalState.winner = getOpponent(player) THEN Pts(-100)
  ELSE 0

mlEvaluateSym(board, player) ==
  LET terminalState == isTerminal(board)
      features == extractFeatures(board, player)
      score == TRAINED_WEIGHTS.bias
        + features.playerMarks * TRAINED_WEIGHTS.playerMarks
        + features.opponentMarks * TRAINED_WEIGHTS.opponentMarks
        + features.playerTwoInRow * TRAINED_WEIGHTS.playerTwoInRow
        + features.opponentTwoInRow * TRAINED_WEIGHTS.opponentTwoInRow
        + features.playerOneInRow * TRAINED_WEIGHTS.playerOneInRow
        + features.opponentOneInRow * TRAINED_WEIGHTS.opponentOneInRow
        + features.centerControl * TRAINED_WEIGHTS.centerControl
        + features.playerCorners * TRAINED_WEIGHTS.playerCorners
        + features.opponentCorners * TRAINED_WEIGHTS.opponentCorners
  IN IF terminalState.terminal THEN TerminalEval(terminalState, player)
     ELSE Clamp90(score)

mlEvaluateAdvanced(board, player) ==
  LET terminalState == isTerminal(board)
      features == extractFeatures(board, player)
      threatDifference == features.playerTwoInRow - features.opponentTwoInRow
      controlDifference == features.playerOneInRow - features.opponentOneInRow
      positionAdvantage == features.centerControl * 6
        + (features.playerCorners - features.opponentCorners) * 3
      forkPotential == IF features.playerTwoInRow > 1 THEN 20 ELSE 0
      blockingNecessity == IF features.opponentTwoInRow > 1 THEN -25 ELSE 0
      score == threatDifference * 20 + controlDifference * 5 + positionAdvantage
               + forkPotential + blockingNecessity
               + (features.playerMarks - features.opponentMarks) * 2
  IN IF terminalState.terminal THEN TerminalEval(terminalState, player)
     ELSE Clamp90(Pts(score))

(***************************************************************************)
(* mlEval.js of the game component (dataset features, MODEL_WEIGHTS).      *)
(* Default MODEL_WEIGHTS in half points: bias 0.5,                         *)
(* weights [2.5, -2.5, 18.0, -22.0, 6.0, 3.5]                              *)
(***************************************************************************)
DefaultModelWeights == [bias |-> 1, weights |-> <<5, -5, 36, -44, 12, 7>>]

\* const flipped = [...] of mlEvaluate's branch for O
Flipped(features) ==
  << features[2], features[1], features[4], features[3], features[5], features[6] >>

mlEvaluate(board, player, modelWeights) ==
  LET terminalState == isTerminal(board)
      features == extractDatasetFeatures(board, player)
      flipped == Flipped(features)
      used == IF player = "X" THEN features ELSE flipped
      n == Min(Len(used), Len(modelWeights.weights))
      score == modelWeights.bias
               + SumSeq([i \in 1..n |-> used[i] * modelWeights.weights[i]])
  IN IF terminalState.terminal THEN TerminalEval(terminalState, player)
     ELSE Clamp90(score)

\* An evaluator handed to the search: the function's name plus the module
\* state (MODEL_WEIGHTS) it reads when called.
Evaluate(evaluateFunction, board, player) ==
  CASE evaluateFunction.name = "classicalEvaluate" -> classicalEvaluate(board, player)
    [] evaluateFunction.name = "classicalEvaluate2" -> classicalEvaluate2(board, player)
    [] evaluateFunction.name = "mlEvaluateSym" -> mlEvaluateSym(board, player)
    [] evaluateFunction.name = "mlEvaluateAdvanced" -> mlEvaluateAdvanced(board, player)
    [] evaluateFunction.name = "mlEvaluate" ->
         mlEvaluate(board, player, evaluateFunction.weights)

EvaluatorNames ==
  {"classicalEvaluate", "classicalEvaluate2", "mlEvaluateSym",
   "mlEvaluateAdvanced", "mlEvaluate"}

(***************************************************************************)
(* alphaBeta.js.  A search returns its value together with the leaves it   *)
(* scored, in visiting order: each terminal node scored by the search      *)
(* itself and each call of evaluateFunction with the arguments it got.     *)
(***************************************************************************)
Leaf(kind, board, depth, player, score) ==
  [kind |-> kind, board |-> board, depth |-> depth, player |-> player, score |-> score]

\* return score; from a node that is a leaf of the search
Scored(kind, board, depth, player, score) ==
  [value |-> score, leaves |-> << Leaf(kind, board, depth, player, score) >>]

RECURSIVE alphaBetaSearch(_, _, _, _, _, _, _, _)
RECURSIVE MaxLoop(_, _, _, _, _, _, _, _, _, _, _)
RECURSIVE MinLoop(_, _, _, _, _, _, _, _, _, _, _)

\* the maximizing loop's body once the recursive call has returned evaluation
MaxStep(board, legalMoves, i, depth, alpha, beta, maxEval, aiPlayer, evaluateFunction, maxDepth, leaves, evaluation) ==
  IF beta <= Max(alpha, evaluation.value)
  THEN [value |-> Max(maxEval, evaluation.value), leaves |-> leaves \o evaluation.leaves]
  ELSE MaxLoop(board, legalMoves, i + 1, depth, Max(alpha, evaluation.value), beta,
               Max(maxEval, evaluation.value), aiPlayer, evaluateFunction, maxDepth,
               leaves \o evaluation.leaves)

\* for (const move of legalMoves) of the maximizing branch, from the i-th move
MaxLoop(board, legalMoves, i, depth, alpha, beta, maxEval, aiPlayer, evaluateFunction, maxDepth, leaves) ==
  IF i > Len(legalMoves) THEN [value |-> maxEval, leaves |-> leaves]
  ELSE MaxStep(board, legalMoves, i, depth, alpha, beta, maxEval, aiPlayer,
               evaluateFunction, maxDepth, leaves,
               alphaBetaSearch(makeMove(board, legalMoves[i], aiPlayer), depth + 1,
                               alpha, beta, FALSE, aiPlayer, evaluateFunction, maxDepth))

\* mutant: the cutoff test of the minimizing branch is inverted
MinStepInverted(board, legalMoves, i, depth, alpha, beta, minEval, aiPlayer, evaluateFunction, maxDepth, leaves, evaluation) ==
  IF Min(beta, evaluation.value) >= alpha
  THEN [value |-> Min(minEval, evaluation.value), leaves |-> leaves \o evaluation.leaves]
  ELSE MinLoop(board, legalMoves, i + 1, depth, alpha, Min(beta, evaluation.value),
               Min(minEval, evaluation.value), aiPlayer, evaluateFunction, maxDepth,
               leaves \o evaluation.leaves)

\* the minimizing loop's body once the recursive call has returned evaluation
MinStep(board, legalMoves, i, depth, alpha, beta, minEval, aiPlayer, evaluateFunction, maxDepth, leaves, evaluation) ==
  IF Min(beta, evaluation.value) <= alpha
  THEN [value |-> Min(minEval, evaluation.value), leaves |-> leaves \o evaluation.leaves]
  ELSE MinLoop(board, legalMoves, i + 1, depth, alpha, Min(beta, evaluation.value),
               Min(minEval, evaluation.value), aiPlayer, evaluateFunction, maxDepth,
               leaves \o evaluation.leaves)

\* for (const move of legalMoves) of the minimizing branch, from the i-th move
MinLoop(board, legalMoves, i, depth, alpha, beta, minEval, aiPlayer, evaluateFunction, maxDepth, leaves) ==
  IF i > Len(legalMoves) THEN [value |-> minEval, leaves |-> leaves]
  ELSE MinStep(board, legalMoves, i, depth, alpha, beta, minEval, aiPlayer,
               evaluateFunction, maxDepth, leaves,
               alphaBetaSearch(makeMove(board, legalMoves[i], getOpponent(aiPlayer)),
                               depth + 1, alpha, beta, TRUE, aiPlayer,
                               evaluateFunction, maxDepth))

\* mutant: the signs of win and loss are swapped
TerminalScoreSwapped(winner, aiPlayer, depth) ==
  IF winner = aiPlayer THEN Pts(depth - 100)
  ELSE IF winner = getOpponent(aiPlayer) THEN Pts(100 - depth)
  ELSE 0

\* mutant: wins and losses are scored without the depth
TerminalScoreFlat(winner, aiPlayer, depth) ==
  IF winner = aiPlayer THEN Pts(100)
  ELSE IF winner = getOpponent(aiPlayer) THEN Pts(-100)
  ELSE 0

TerminalScore(winner, aiPlayer, depth) ==
  IF winner = aiPlayer THEN Pts(100 - depth)
  ELSE IF winner = getOpponent(aiPlayer) THEN Pts(depth - 100)
  ELSE 0

\* mutant: the depth limit cuts the search two plies early
DescendEarly(terminalState, board, depth, alpha, beta, isMaximizing, aiPlayer, evaluateFunction, maxDepth) ==
  IF terminalState.terminal
  THEN Scored("terminal", board, depth, null,
              TerminalScore(terminalState.winner, aiPlayer, depth))
  ELSE IF depth + 2 >= maxDepth
  THEN Scored("evaluator", board, depth, aiPlayer,
              Evaluate(evaluateFunction, board, aiPlayer))
  ELSE IF isMaximizing
  THEN MaxLoop(board, getLegalMoves(board), 1, depth, alpha, beta, -Infinity,
               aiPlayer, evaluateFunction, maxDepth, <<>>)
  ELSE MinLoop(board, getLegalMoves(board), 1, depth, alpha, beta, Infinity,
               aiPlayer, evaluateFunction, maxDepth, <<>>)

\* the search below a node whose terminalState is known
Descend(terminalState, board, depth, alpha, beta, isMaximizing, aiPlayer, evaluateFunction, maxDepth) ==
  IF terminalState.terminal
  THEN Scored("terminal", board, depth, null,
              TerminalScore(terminalState.winner, aiPlayer, depth))
  ELSE IF depth >= maxDepth
  THEN Scored("evaluator", board, depth, aiPlayer,
              Evaluate(evaluateFunction, board, aiPlayer))
  ELSE IF isMaximizing
  THEN MaxLoop(board, getLegalMoves(board), 1, depth, alpha, beta, -Infinity,
               aiPlayer, evaluateFunction, maxDepth, <<>>)
  ELSE MinLoop(board, getLegalMoves(board), 1, depth, alpha, beta, Infinity,
               aiPlayer, evaluateFunction, maxDepth, <<>>)

\* mutant: the depth limit is tested before the terminal state
alphaBetaSearchBlind(board, depth, alpha, beta, isMaximizing, aiPlayer, evaluateFunction, maxDepth) ==
  IF depth >= maxDepth
  THEN Scored("evaluator", board, depth, aiPlayer,
              Evaluate(evaluateFunction, board, aiPlayer))
  ELSE Descend(isTerminal(board), board, depth, alpha, beta, isMaximizing, aiPlayer,
               evaluateFunction, maxDepth)

alphaBetaSearch(board, depth, alpha, beta, isMaximizing, aiPlayer, evaluateFunction, maxDepth) ==
  Descend(isTerminal(board), board, depth, alpha, beta, isMaximizing, aiPlayer,
          evaluateFunction, maxDepth)

RECURSIVE RootLoop(_, _, _, _, _, _, _, _, _, _)

\* mutant: an equal value replaces the running best
RootStepLast(board, legalMoves, i, bestMove, bestValue, moveEvaluations, leaves, aiPlayer, evaluateFunction, maxDepth, moveValue) ==
  RootLoop(board, legalMoves, i + 1,
           IF moveValue.value >= bestValue THEN legalMoves[i] ELSE bestMove,
           IF moveValue.value >= bestValue THEN moveValue.value ELSE bestValue,
           Append(moveEvaluations, [move |-> legalMoves[i], value |-> moveValue.value]),
           leaves \o moveValue.leaves,
           aiPlayer, evaluateFunction, maxDepth)

\* findBestMove's loop body once the search below move has returned moveValue
RootStep(board, legalMoves, i, bestMove, bestValue, moveEvaluations, leaves, aiPlayer, evaluateFunction, maxDepth, moveValue) ==
  RootLoop(board, legalMoves, i + 1,
           IF moveValue.value > bestValue THEN legalMoves[i] ELSE bestMove,
           IF moveValue.value > bestValue THEN moveValue.value ELSE bestValue,
           Append(moveEvaluations, [move |-> legalMoves[i], value |-> moveValue.value]),
           leaves \o moveValue.leaves,
           aiPlayer, evaluateFunction, maxDepth)

\* findBestMove's loop over the root moves, from the i-th move
RootLoop(board, legalMoves, i, bestMove, bestValue, moveEvaluations, leaves, aiPlayer, evaluateFunction, maxDepth) ==
  IF i > Len(legalMoves)
  THEN [bestMove |-> bestMove, bestValue |-> bestValue,
        moveEvaluations |-> moveEvaluations, leaves |-> leaves]
  ELSE RootStep(board, legalMoves, i, bestMove, bestValue, moveEvaluations, leaves,
                aiPlayer, evaluateFunction, maxDepth,
                alphaBetaSearch(makeMove(board, legalMoves[i], aiPlayer), 0,
                                -Infinity, Infinity, FALSE, aiPlayer,
                                evaluateFunction, maxDepth))

\* mutant: bestValue starts at 0 instead of -Infinity
findBestMoveFromZero(board, aiPlayer, evaluateFunction, maxDepth) ==
  RootLoop(board, getLegalMoves(board), 1, nullMove, 0, <<>>, <<>>,
           aiPlayer, evaluateFunction, maxDepth)

\* bestMove stays null (nullMove) and bestValue -Infinity when there is no legal move
findBestMove(board, aiPlayer, evaluateFunction, maxDepth) ==
  RootLoop(board, getLegalMoves(board), 1, nullMove, -Infinity, <<>>, <<>>,
           aiPlayer, evaluateFunction, maxDepth)

RECURSIVE EvaluationsLoop(_, _, _, _, _, _, _)
\* getAllMoveEvaluations' loop over the root moves, from the i-th move
EvaluationsLoop(board, legalMoves, i, evaluations, aiPlayer, evaluateFunction, maxDepth) ==
  IF i > Len(legalMoves) THEN evaluations
  ELSE EvaluationsLoop(board, legalMoves, i + 1,
         Append(evaluations,
                [move |-> legalMoves[i],
                 value |-> alphaBetaSearch(makeMove(board, legalMoves[i], aiPlayer), 0,
                                           -Infinity, Infinity, FALSE, aiPlayer,
                                           evaluateFunction, maxDepth).value]),
         aiPlayer, evaluateFunction, maxDepth)

\* mutant: the comparator is a.value - b.value
InsertAscending(sorted, e) ==
  LET k == Cardinality({j \in 1..Len(sorted) : sorted[j].value <= e.value})
  IN SubSeq(sorted, 1, k) \o << e >> \o SubSeq(sorted, k + 1, Len(sorted))

\* e placed behind the elements the comparator (a, b) => b.value - a.value
\* does not order after it (Array.prototype.sort is stable)
InsertDescending(sorted, e) ==
  LET k == Cardinality({j \in 1..Len(sorted) : sorted[j].value >= e.value})
  IN SubSeq(sorted, 1, k) \o << e >> \o SubSeq(sorted, k + 1, Len(sorted))

RECURSIVE SortDescending(_)
\* evaluations.sort((a, b) => b.value - a.value)
SortDescending(evaluations) ==
  IF evaluations = <<>> THEN <<>>
  ELSE InsertDescending(SortDescending(SubSeq(evaluations, 1, Len(evaluations) - 1)),
                        evaluations[Len(evaluations)])

getAllMoveEvaluations(board, aiPlayer, evaluateFunction, maxDepth) ==
  SortDescending(EvaluationsLoop(board, getLegalMoves(board), 1, <<>>,
                                 aiPlayer, evaluateFunction, maxDepth))

(***************************************************************************)
(* State.  board/currentPlayer: the position of a game played by strictly  *)
(* alternating legal moves, X first.  config: the search configuration of  *)
(* the AI in a played game.  call: the last library call made on the       *)
(* current position, with its arguments and what it returned.  Neither    *)
(* makeMove nor findBestMove has a throw statement: error is always "none".*)
(***************************************************************************)
VARIABLES board, currentPlayer, config, call,
          gameStatus, gameWinner, thinking, moveHistory, showSettings, timers, games,
          localStorage, MODEL_WEIGHTS, clock

\* the other useState values of the TicTacToe component (gameWinner is the
\* state `winner`), its pending setTimeout callbacks, and the number of times
\* Start Game or Reset Game was pressed
componentVars ==
  <<gameStatus, gameWinner, thinking, moveHistory, showSettings, timers, games>>

\* the browser's localStorage, the module variable MODEL_WEIGHTS of mlEval.js
\* and the clock read by Date.now()
storageVars == <<localStorage, MODEL_WEIGHTS, clock>>

vars == <<board, currentPlayer, config, call, componentVars, storageVars>>

NoCall == [op |-> "none"]
NoConfig == [aiPlayer |-> null]

Evaluator(name) == [name |-> name, weights |-> DefaultModelWeights]
Evaluators == {Evaluator(name) : name \in EvaluatorNames}

\* largest magnitude, in points, of a weight or bias put in MODEL_WEIGHTS
MaxWeight == 1000

\* values of MODEL_WEIGHTS: the default, all zero, all at the largest magnitude
\* of either sign, opposed signs, and weight lists longer and shorter than the
\* six features
WeightSets ==
  { DefaultModelWeights,
    [bias |-> 0, weights |-> <<0, 0, 0, 0, 0, 0>>],
    [bias |-> Pts(MaxWeight), weights |-> [i \in 1..6 |-> Pts(MaxWeight)]],
    [bias |-> Pts(-MaxWeight), weights |-> [i \in 1..6 |-> Pts(-MaxWeight)]],
    [bias |-> 0, weights |-> <<Pts(MaxWeight), Pts(-MaxWeight), Pts(MaxWeight),
                               Pts(-MaxWeight), 0, 0>>],
    [bias |-> 1, weights |-> <<5, -5, 36, -44, 12, 7, Pts(MaxWeight)>>],
    [bias |-> 1, weights |-> <<5, -5, 36>>] }

\* the evaluators with every value of the module state they read
WeightedEvaluators ==
  Evaluators \cup {[name |-> "mlEvaluate", weights |-> w] : w \in WeightSets}

\* getClassicalDepth (both variants) and getMLConfig (both variants)
DifficultyDepths == {1, 2, 3, 4, 9}
Depths == 0..9

CountMarks(b) == Cardinality({i \in Cells : b[i] # null})

\* the position after the moves of `moves` were played alternately, X first
RECURSIVE PlayOut(_, _, _)
PlayOut(b, moves, player) ==
  IF moves = <<>> THEN b
  ELSE PlayOut(makeMove(b, Head(moves), player), Tail(moves), getOpponent(player))

\* Searches are made on the positions that continue one of these openings
\* (a search of the first plies visits tens of thousands of nodes).
Openings == { <<0, 3, 1>>, <<4, 0, 8>> }

Searchable(b) ==
  \E o \in Openings :
    LET start == PlayOut(createEmptyBoard, o, "X")
    IN \A i \in Cells : start[i] # null => b[i] = start[i]

\* the useState initial values of the component, no timer pending
InitComponent ==
  /\ gameStatus = "playing"
  /\ gameWinner = null
  /\ thinking = FALSE
  /\ moveHistory = << >>
  /\ showSettings = TRUE
  /\ timers = << >>
  /\ games = 0

\* localStorage.getItem returns null for an item that was never set
NoItem == [stored |-> FALSE]

\* an empty localStorage and the default MODEL_WEIGHTS
EmptyStorage == [tictactoe_game_history |-> NoItem, ml_model |-> NoItem]

InitStorage ==
  /\ localStorage = EmptyStorage
  /\ MODEL_WEIGHTS = DefaultModelWeights
  /\ clock = 0

Init ==
  /\ InitComponent
  /\ InitStorage
  /\ board = createEmptyBoard
  /\ currentPlayer = "X"
  /\ config = NoConfig
  /\ call = NoCall

\* a legal move of the player whose turn it is (handleCellClick / makeAIMove)
Move(index) ==
  /\ ~isTerminal(board).terminal
  /\ board[index] = null
  /\ board' = makeMove(board, index, currentPlayer)
  /\ currentPlayer' = getOpponent(currentPlayer)
  /\ call' = NoCall
  /\ UNCHANGED <<config, componentVars, storageVars>>

\* findBestMove(board, aiPlayer, evaluateFunction, maxDepth) on the position
CallFindBestMove(aiPlayer, evaluateFunction, maxDepth) ==
  /\ call = NoCall
  /\ Searchable(board)
  /\ call' = [op |-> "findBestMove", aiPlayer |-> aiPlayer,
              evaluateFunction |-> evaluateFunction, maxDepth |-> maxDepth,
              error |-> "none",
              result |-> findBestMove(board, aiPlayer, evaluateFunction, maxDepth)]
  /\ UNCHANGED <<board, currentPlayer, config, componentVars, storageVars>>

\* getAllMoveEvaluations(board, aiPlayer, evaluateFunction, maxDepth) on the
\* position, with a depth of getSearchDepth as startGame and makeAIMove call it
CallGetAllMoveEvaluations(aiPlayer, evaluateFunction, maxDepth) ==
  /\ call = NoCall
  /\ Searchable(board)
  /\ call' = [op |-> "getAllMoveEvaluations", aiPlayer |-> aiPlayer,
              evaluateFunction |-> evaluateFunction, maxDepth |-> maxDepth,
              error |-> "none",
              result |-> getAllMoveEvaluations(board, aiPlayer, evaluateFunction, maxDepth)]
  /\ UNCHANGED <<board, currentPlayer, config, componentVars, storageVars>>

\* evaluateFunction(board, player) on the position
CallEvaluate(evaluateFunction, player) ==
  /\ call = NoCall
  /\ call' = [op |-> "evaluate", evaluateFunction |-> evaluateFunction,
              player |-> player, error |-> "none",
              result |-> Evaluate(evaluateFunction, board, player)]
  /\ UNCHANGED <<board, currentPlayer, config, componentVars, storageVars>>

\* adjustFeaturesForPlayer(extractDatasetFeatures(board, player), player) on
\* the position, next to the flip mlEvaluate makes of the same features
CallAdjustFeatures(player) ==
  /\ call = NoCall
  /\ call' = [op |-> "adjustFeaturesForPlayer", player |-> player,
              features |-> extractDatasetFeatures(board, player),
              error |-> "none",
              result |-> adjustFeaturesForPlayer(extractDatasetFeatures(board, player),
                                                 player),
              flipped |-> Flipped(extractDatasetFeatures(board, player))]
  /\ UNCHANGED <<board, currentPlayer, config, componentVars, storageVars>>

\* makeMove(board, position, player) on any cell, empty or not
CallMakeMove(position, player) ==
  /\ call = NoCall
  /\ call' = [op |-> "makeMove", position |-> position, player |-> player,
              error |-> "none",
              result |-> makeMove(board, position, player)]
  /\ UNCHANGED <<board, currentPlayer, config, componentVars, storageVars>>

Next ==
  \/ \E index \in Cells : Move(index)
  \/ \E aiPlayer \in Marks, evaluateFunction \in Evaluators, maxDepth \in Depths :
       CallFindBestMove(aiPlayer, evaluateFunction, maxDepth)
  \/ \E aiPlayer \in Marks, evaluateFunction \in Evaluators, maxDepth \in DifficultyDepths :
       CallGetAllMoveEvaluations(aiPlayer, evaluateFunction, maxDepth)
  \/ \E evaluateFunction \in WeightedEvaluators, player \in Marks :
       CallEvaluate(evaluateFunction, player)
  \/ \E player \in Marks : CallAdjustFeatures(player)
  \/ \E position \in Cells, player \in Marks : CallMakeMove(position, player)

Spec == Init /\ [][Next]_vars

(***************************************************************************)
(* A game against the AI: the AI picks each of its moves with findBestMove *)
(* under config, the opponent plays any legal move.                        *)
(***************************************************************************)
FullDepth == 9

InitPlay ==
  /\ InitComponent
  /\ InitStorage
  /\ board = createEmptyBoard
  /\ currentPlayer = "X"
  /\ config \in [aiPlayer : Marks, evaluateFunction : Evaluators, maxDepth : {FullDepth}]
  /\ call = NoCall

\* makeAIMove: search, then play bestMove when there is one
AIMove ==
  /\ ~isTerminal(board).terminal
  /\ currentPlayer = config.aiPlayer
  /\ \E found \in {findBestMove(board, config.aiPlayer, config.evaluateFunction,
                                 config.maxDepth)} :
        /\ found.bestMove # nullMove
        /\ board' = makeMove(board, found.bestMove, config.aiPlayer)
        /\ call' = [op |-> "makeAIMove", aiPlayer |-> config.aiPlayer,
                    bestMove |-> found.bestMove, bestValue |-> found.bestValue,
                    moveEvaluations |-> found.moveEvaluations,
                    evaluatorCalls |-> Len(SelectSeq(found.leaves,
                                         LAMBDA l : l.kind = "evaluator")),
                    error |-> "none"]
  /\ currentPlayer' = getOpponent(currentPlayer)
  /\ UNCHANGED <<config, componentVars, storageVars>>

OpponentMove(index) ==
  /\ ~isTerminal(board).terminal
  /\ currentPlayer # config.aiPlayer
  /\ board[index] = null
  /\ board' = makeMove(board, index, currentPlayer)
  /\ currentPlayer' = getOpponent(currentPlayer)
  /\ call' = NoCall
  /\ UNCHANGED <<config, componentVars, storageVars>>

NextPlay ==
  \/ AIMove
  \/ \E index \in Cells : OpponentMove(index)

SpecPlay == InitPlay /\ [][NextPlay]_vars

(***************************************************************************)
(* Claims                                                                  *)
(***************************************************************************)

\* C1: in a game where the AI searches at maxDepth 9 from the empty board and
\* the opponent plays any legal moves, no terminal position has the opponent
\* as winner, whichever evaluator is configured.
C1_NeverLoses ==
  isTerminal(board).terminal => isTerminal(board).winner # getOpponent(config.aiPlayer)

\* a finished game in which the AI, playing O, answered every X move
C1_Witness ==
  /\ config.aiPlayer = "O"
  /\ isTerminal(board).terminal
  /\ CountMarks(board) >= 8

(***************************************************************************)
(* Vocabulary of the claims, defined from the geometry of the board and    *)
(* not from the program's tables.                                          *)
(***************************************************************************)
Row(i) == i \div 3
Col(i) == i % 3

\* the 8 winning lines as sets of three cells: rows, columns, two diagonals
WinningLines ==
  {{i \in Cells : Row(i) = r} : r \in 0..2}
  \cup {{i \in Cells : Col(i) = c} : c \in 0..2}
  \cup {{i \in Cells : Row(i) = Col(i)}, {i \in Cells : Row(i) + Col(i) = 2}}

HasLine(b, mark) == \E l \in WinningLines : \A i \in l : b[i] = mark
IsFull(b) == \A i \in Cells : b[i] # null
Over(b) == HasLine(b, "X") \/ HasLine(b, "O") \/ IsFull(b)

\* the empty cells that complete a line of three marks of `mark`
WinningMoves(b, mark) ==
  {m \in Cells : b[m] = null /\ \E l \in WinningLines :
                    m \in l /\ \A i \in l \ {m} : b[i] = mark}

SetMax(S) == CHOOSE x \in S : \A y \in S : y <= x
SetMin(S) == CHOOSE x \in S : \A y \in S : x <= y

\* plain minimax: same terminal scoring and depth cutoff, no alpha, no beta
RECURSIVE Minimax(_, _, _, _, _, _)
Minimax(b, depth, isMaximizing, aiPlayer, evaluateFunction, maxDepth) ==
  IF Over(b)
  THEN (IF HasLine(b, aiPlayer) THEN Pts(100 - depth)
        ELSE IF HasLine(b, getOpponent(aiPlayer)) THEN Pts(depth - 100)
        ELSE 0)
  ELSE IF depth >= maxDepth THEN Evaluate(evaluateFunction, b, aiPlayer)
  ELSE LET mover == IF isMaximizing THEN aiPlayer ELSE getOpponent(aiPlayer)
           values == {Minimax([b EXCEPT ![m] = mover], depth + 1, ~isMaximizing,
                              aiPlayer, evaluateFunction, maxDepth) :
                        m \in {i \in Cells : b[i] = null}}
       IN IF isMaximizing THEN SetMax(values) ELSE SetMin(values)

\* the minimax value of the root move m of the recorded findBestMove call
RootValue(m) ==
  Minimax([board EXCEPT ![m] = call.aiPlayer], 0, FALSE, call.aiPlayer,
          call.evaluateFunction, call.maxDepth)

Searched == call.op = "findBestMove" /\ ~Over(board)

\* C2: on a non-terminal position, for each AI mark, maxDepth in 0..9 and
\* evaluator, findBestMove gives every root move the value of a plain minimax
\* search that never prunes, and returns the first root move of maximal
\* minimax value.
C2_AlphaBetaIsMinimax ==
  Searched =>
    LET empty == {i \in Cells : board[i] = null}
        evals == call.result.moveEvaluations
        best == SetMax({RootValue(m) : m \in empty})
    IN /\ {evals[i].move : i \in 1..Len(evals)} = empty
       /\ Len(evals) = Cardinality(empty)
       /\ \A i \in 1..Len(evals) : evals[i].value = RootValue(evals[i].move)
       /\ call.result.bestValue = best
       /\ RootValue(call.result.bestMove) = best
       /\ \A m \in empty : m < call.result.bestMove => RootValue(m) < best

\* a search that really pruned: fewer leaves than the full tree has, with a
\* depth limit that makes the evaluator score some of them
C2_Witness ==
  /\ Searched
  /\ call.maxDepth = 2
  /\ CountMarks(board) = 3
  /\ Len(call.result.leaves) < 6 * 5 * 4
  /\ \E i \in 1..Len(call.result.leaves) : call.result.leaves[i].kind = "evaluator"

ScenarioA == PlayOut(createEmptyBoard, <<0, 3, 1, 4>>, "X")

\* C3: on [X,X,_, O,O,_, _,_,_] with AI = O, findBestMove returns bestMove 5
\* for every maxDepth >= 1 and every evaluator.
C3_ScenarioA ==
  (Searched /\ board = ScenarioA /\ call.aiPlayer = "O" /\ call.maxDepth >= 1)
    => call.result.bestMove = 5

\* C4: when the AI is to move and has a move completing a line of three of
\* its marks, findBestMove returns such a move, at every difficulty depth and
\* with every evaluator.
C4_TakesWin ==
  (Searched /\ call.aiPlayer = currentPlayer /\ call.maxDepth \in DifficultyDepths
     /\ WinningMoves(board, call.aiPlayer) # {})
    => call.result.bestMove \in WinningMoves(board, call.aiPlayer)

\* C5: when the AI is to move, cannot win at once and the opponent has exactly
\* one cell completing a line, findBestMove returns that cell, at every
\* difficulty depth and with every evaluator.
C5_Blocks ==
  (Searched /\ call.aiPlayer = currentPlayer /\ call.maxDepth \in DifficultyDepths
     /\ WinningMoves(board, call.aiPlayer) = {}
     /\ Cardinality(WinningMoves(board, getOpponent(call.aiPlayer))) = 1)
    => call.result.bestMove \in WinningMoves(board, getOpponent(call.aiPlayer))

\* C6: on every position reachable by alternating legal moves isTerminal
\* reports exactly one of in-progress, win, draw; a win comes with one of the
\* 8 winning lines whose three cells hold the winner's mark; a draw only when
\* no line is complete and no cell is empty; in-progress otherwise.
C6_Outcome ==
  LET t == isTerminal(board)
      anyLine == HasLine(board, "X") \/ HasLine(board, "O")
  IN /\ t.winner \in {"X", "O", "draw", null}
     /\ t.terminal <=> t.winner # null
     /\ t.winner \in Marks =>
          /\ Len(t.line) = 3
          /\ {t.line[1], t.line[2], t.line[3]} \in WinningLines
          /\ \A j \in 1..3 : board[t.line[j]] = t.winner
     /\ t.winner = "draw" <=> (~anyLine /\ IsFull(board))
     /\ t.winner = null <=> (~anyLine /\ ~IsFull(board))

\* a win of O on the anti-diagonal is reported with its line
C6_Witness ==
  /\ isTerminal(board).winner = "O"
  /\ isTerminal(board).line = <<2, 4, 6>>

\* C7 as stated: makeMove on an occupied cell fails with InvalidMove and the
\* cell's mark is not replaced.
C7_InvalidMove ==
  (call.op = "makeMove" /\ board[call.position] # null)
    => /\ call.error = "InvalidMove"
       /\ call.result[call.position] = board[call.position]

\* C7 amended: makeMove on an occupied cell raises no error and returns a
\* board in which that cell holds the given player's mark, all other cells
\* being those of the input board.
C7_Overwrites ==
  (call.op = "makeMove" /\ board[call.position] # null)
    => /\ call.error = "none"
       /\ DOMAIN call.result = Cells
       /\ call.result[call.position] = call.player
       /\ \A i \in Cells \ {call.position} : call.result[i] = board[i]

\* makeMove was called with O on a cell holding X
C7_Witness ==
  /\ call.op = "makeMove"
  /\ board[call.position] = "X"
  /\ call.player = "O"
  /\ call.result[call.position] = "O"

\* C8 as stated: findBestMove on a board with no empty cell reports a
\* NoLegalMoves error.
C8_NoLegalMoves ==
  (call.op = "findBestMove" /\ IsFull(board)) => call.error = "NoLegalMoves"

\* C8 amended: findBestMove on a board with no empty cell raises no error and
\* returns bestMove = null, bestValue = -Infinity and an empty move list.
C8_NullResult ==
  (call.op = "findBestMove" /\ IsFull(board))
    => /\ call.error = "none"
       /\ call.result.bestMove = nullMove
       /\ call.result.bestValue = -Infinity
       /\ call.result.moveEvaluations = <<>>
       /\ call.result.leaves = <<>>

\* findBestMove was called on a full board that is a draw
C8_Witness ==
  /\ call.op = "findBestMove"
  /\ IsFull(board)
  /\ ~HasLine(board, "X")
  /\ ~HasLine(board, "O")

LeavesOfCall == {call.result.leaves[i] : i \in 1..Len(call.result.leaves)}

\* C9: every terminal node of a search, at depth d, is scored 100 - d when the
\* AI has won, d - 100 when the opponent has won and 0 on a draw, by the search
\* itself and not by the evaluator; the score lies in
\* [-100, -92] \cup {0} \cup [92, 100].
C9_TerminalScores ==
  Searched =>
    \A l \in LeavesOfCall :
      /\ l.kind = "terminal" <=> Over(l.board)
      /\ Over(l.board) =>
           /\ l.score = (IF HasLine(l.board, call.aiPlayer) THEN Pts(100 - l.depth)
                         ELSE IF HasLine(l.board, getOpponent(call.aiPlayer))
                              THEN Pts(l.depth - 100)
                         ELSE 0)
           /\ \/ l.score \in Pts(-100)..Pts(-92)
              \/ l.score = 0
              \/ l.score \in Pts(92)..Pts(100)

\* a search that met a lost position four plies below a root move and a won
\* one three plies below
C9_Witness ==
  /\ Searched
  /\ \E l \in LeavesOfCall : l.kind = "terminal" /\ l.depth = 4 /\ l.score = Pts(96)
  /\ \E l \in LeavesOfCall : l.kind = "terminal" /\ l.depth = 3 /\ l.score = Pts(-97)

\* C10: every board handed to the evaluator during a findBestMove call is
\* non-terminal, is at depth exactly maxDepth (maxDepth + 1 more marks than the
\* root board) and is evaluated for aiPlayer, whoever is to move there.
C10_EvaluatorCalls ==
  call.op = "findBestMove" =>
    \A l \in LeavesOfCall :
      l.kind = "evaluator" =>
        /\ ~Over(l.board)
        /\ l.depth = call.maxDepth
        /\ CountMarks(l.board) = CountMarks(board) + call.maxDepth + 1
        /\ l.player = call.aiPlayer

\* the evaluator was called for the AI on a board three plies below the root,
\* where the opponent is to move
C10_Witness ==
  /\ call.op = "findBestMove"
  /\ call.maxDepth = 2
  /\ call.aiPlayer = currentPlayer
  /\ \E l \in LeavesOfCall :
        /\ l.kind = "evaluator"
        /\ l.player = call.aiPlayer
        /\ CountMarks(l.board) = CountMarks(board) + 3

(***************************************************************************)
(* Claims on the search at full depth, the order of the root moves and the *)
(* evaluators' ranges                                                      *)
(***************************************************************************)
\* the position the AI searched before it played call.bestMove
SearchedRoot == [board EXCEPT ![call.bestMove] = null]

\* what findBestMove returns, without the record of the leaves
Returned(found) ==
  [bestMove |-> found.bestMove, bestValue |-> found.bestValue,
   moveEvaluations |-> found.moveEvaluations]

ReferenceEvaluators == {Evaluator("classicalEvaluate"), Evaluator("mlEvaluate")}

\* C11: with maxDepth = 9, a findBestMove made by the AI on a non-terminal
\* position of a game started on the empty board makes no evaluator call, and
\* run on the same position with another evaluator it returns the same
\* bestMove, bestValue and per-move values.
C11_NoEvaluatorAtFullDepth ==
  call.op = "makeAIMove" =>
    /\ call.evaluatorCalls = 0
    /\ \A other \in ReferenceEvaluators :
         Returned(findBestMove(SearchedRoot, config.aiPlayer, other, FullDepth))
           = [bestMove |-> call.bestMove, bestValue |-> call.bestValue,
              moveEvaluations |-> call.moveEvaluations]

\* the AI, playing O with the advanced ML evaluator configured, has answered
\* the first move of X: a search of eight plies below a one-mark position
C11_Witness ==
  /\ call.op = "makeAIMove"
  /\ config.aiPlayer = "O"
  /\ config.evaluateFunction.name = "mlEvaluateAdvanced"
  /\ CountMarks(board) = 2
  /\ Len(call.moveEvaluations) = 8

\* the root values a recorded findBestMove call returned
ReturnedValues == {call.result.moveEvaluations[i].value : i \in 1..Len(call.result.moveEvaluations)}

MovesOfValue(v) ==
  {call.result.moveEvaluations[i].move :
     i \in {j \in 1..Len(call.result.moveEvaluations) : call.result.moveEvaluations[j].value = v}}

\* C12: findBestMove returns as bestMove the lowest-index legal move whose
\* root value equals the maximum root value; a later move of equal value
\* never replaces an earlier best.
C12_FirstBest ==
  Searched =>
    /\ call.result.bestValue = SetMax(ReturnedValues)
    /\ call.result.bestMove = SetMin(MovesOfValue(SetMax(ReturnedValues)))

\* a search in which at least three root moves share the maximal value
C12_Witness ==
  /\ Searched
  /\ Cardinality(MovesOfValue(SetMax(ReturnedValues))) >= 3
  /\ Cardinality(ReturnedValues) >= 2
  /\ call.result.bestMove = SetMin(MovesOfValue(SetMax(ReturnedValues)))

Ranked == call.op = "getAllMoveEvaluations" /\ ~Over(board)

EmptyCells == {i \in Cells : board[i] = null}

OnePerLegalMove(evals) ==
  /\ Len(evals) = Cardinality(EmptyCells)
  /\ {evals[i].move : i \in 1..Len(evals)} = EmptyCells

NonIncreasing(evals) == \A i \in 1..(Len(evals) - 1) : evals[i].value >= evals[i + 1].value

\* C13 as stated: the move list returned by findBestMove has one pair per
\* legal move of the root board and is ordered by non-increasing value.
C13_SortedList ==
  Searched =>
    /\ OnePerLegalMove(call.result.moveEvaluations)
    /\ NonIncreasing(call.result.moveEvaluations)

\* C13 amended: the move list returned by findBestMove has one pair per legal
\* move of the root board, in ascending order of the move index whatever the
\* values; the list returned by getAllMoveEvaluations has one pair per legal
\* move, each with the minimax value of the move, ordered by non-increasing
\* value.
C13_Lists ==
  /\ Searched =>
       /\ OnePerLegalMove(call.result.moveEvaluations)
       /\ \A i \in 1..(Len(call.result.moveEvaluations) - 1) :
            call.result.moveEvaluations[i].move < call.result.moveEvaluations[i + 1].move
  /\ Ranked =>
       /\ OnePerLegalMove(call.result)
       /\ NonIncreasing(call.result)
       /\ \A i \in 1..Len(call.result) : call.result[i].value = RootValue(call.result[i].move)

\* a findBestMove list over six legal moves whose values increase somewhere
C13_Witness ==
  /\ Searched
  /\ Len(call.result.moveEvaluations) = 6
  /\ \E i \in 1..5 : call.result.moveEvaluations[i].value < call.result.moveEvaluations[i + 1].value
  /\ \A i \in 1..5 : call.result.moveEvaluations[i].move < call.result.moveEvaluations[i + 1].move

Abs(x) == IF x < 0 THEN -x ELSE x

MLNames == {"mlEvaluateSym", "mlEvaluateAdvanced", "mlEvaluate"}

Evaluated == call.op = "evaluate" /\ ~Over(board)

\* the depths at which the search can meet a terminal node: below a root move
\* a node of depth d holds at least d + 1 marks and a board has nine cells
TerminalDepths == 0..8

\* C14: on every non-terminal board, for either player and every weight set,
\* mlEvaluate (both modules) and mlEvaluateAdvanced return a score within
\* [-90, 90], and every win or loss score the search gives a terminal node is
\* at least 92 in magnitude, hence strictly outside that range.
C14_Clamped ==
  /\ (Evaluated /\ call.evaluateFunction.name \in MLNames) =>
       (Pts(-90) <= call.result /\ call.result <= Pts(90))
  /\ \A d \in TerminalDepths, mark \in Marks, aiPlayer \in Marks :
       Abs(TerminalScore(mark, aiPlayer, d)) >= Pts(92)
  /\ Searched =>
       \A l \in LeavesOfCall :
         (l.kind = "terminal" /\ (HasLine(l.board, "X") \/ HasLine(l.board, "O")))
           => Abs(l.score) >= Pts(92)

\* mlEvaluate with the largest weights on a non-terminal board: the weighted
\* sum is far above 90 and the returned score is exactly 90
C14_Witness ==
  /\ Evaluated
  /\ call.evaluateFunction.name = "mlEvaluate"
  /\ call.evaluateFunction.weights.bias = Pts(MaxWeight)
  /\ CountMarks(board) >= 3
  /\ call.result = Pts(90)

ClassicalNames == {"classicalEvaluate", "classicalEvaluate2"}

\* a board won by X: X on the top row after X 0, O 3, X 1, O 4, X 2
WonBoard == PlayOut(createEmptyBoard, <<0, 3, 1, 4, 2>>, "X")

\* what the evaluator returns for a won terminal board, to the winner
WonMagnitude(evaluateFunction) == Evaluate(evaluateFunction, WonBoard, "X")

\* C15: for each classicalEvaluate variant the magnitude returned for a won or
\* lost terminal board (1000, respectively 100) is strictly greater than the
\* absolute value of the score returned for every reachable non-terminal
\* board and either player.
C15_TerminalDominates ==
  /\ WonMagnitude(Evaluator("classicalEvaluate")) = Pts(1000)
  /\ WonMagnitude(Evaluator("classicalEvaluate2")) = Pts(100)
  /\ \A name \in ClassicalNames :
       Evaluate(Evaluator(name), WonBoard, "O") = -WonMagnitude(Evaluator(name))
  /\ (Evaluated /\ call.evaluateFunction.name \in ClassicalNames) =>
       Abs(call.result) < WonMagnitude(call.evaluateFunction)

WeightsOf(name) ==
  IF name = "classicalEvaluate" THEN ClassicalWeights ELSE ClassicalWeights2

PriorityOrder(w) ==
  /\ w.terminal > w.opponentTwoInRow
  /\ w.opponentTwoInRow > w.playerTwoInRow
  /\ w.playerTwoInRow > w.fork
  /\ w.fork > w.center
  /\ w.center > w.corner
  /\ w.corner > w.playerOneInRow
  /\ w.corner > w.opponentOneInRow
  /\ w.playerOneInRow > w.edge
  /\ w.opponentOneInRow > w.edge

\* C16: in both classicalEvaluate variants the score magnitudes are strictly
\* ordered: terminal win/loss > penalty per opponent two-in-a-row line >
\* bonus per own two-in-a-row line > fork bonus > center cell > corner cell >
\* one-in-a-row line > edge cell.
C16_PriorityOrder ==
  (Evaluated /\ call.evaluateFunction.name \in ClassicalNames) =>
    PriorityOrder(WeightsOf(call.evaluateFunction.name))

\* C17: for the feature vector f of a reachable board, the O-perspective
\* transform, by adjustFeaturesForPlayer(f, 'O') and by the flip inside
\* mlEvaluate, is [f[1], f[0], f[3], f[2], f[4], f[5]]: components 0/1 and 2/3
\* swapped, the center and corner components unchanged.
C17_Flip ==
  (call.op = "adjustFeaturesForPlayer" /\ call.player = "O") =>
    LET f == call.features
        swapped == << f[2], f[1], f[4], f[3], f[5], f[6] >>
    IN call.result = swapped /\ call.flipped = swapped

(***************************************************************************)
(* modelTrainer.js.  A dataset of m samples is the sequence of its sample  *)
(* indices 0..m-1.  The numbers computed from the data (weights, losses,   *)
(* accuracies) are floating-point values started from Math.random(): an    *)
(* entry of the history is identified by the epoch that pushed it, and an  *)
(* accuracy by whether its division is by zero.                            *)
(***************************************************************************)
MaxSamples == 8
MaxFolds == 4
MaxEpochs == 101

Samples(m) == [i \in 1..m |-> i - 1]

\* Array.prototype.slice(start, end) for 0 <= start
Slice(s, start, end) == SubSeq(s, start + 1, Min(end, Len(s)))

\* const n = X[0].length throws a TypeError when X is empty
TrainThrows(X) == Len(X) = 0

\* calculateAccuracy: (correct / X.length) * 100
calculateAccuracy(X) == IF Len(X) = 0 THEN "NaN" ELSE "percentage"

\* the split of the i-th iteration of crossValidate's loop
FoldOf(X, i, foldSize) ==
  LET testStart == i * foldSize
      testEnd == (i + 1) * foldSize
  IN [ trainX |-> Slice(X, 0, testStart) \o Slice(X, testEnd, Len(X)),
       testX |-> Slice(X, testStart, testEnd),
       accuracy |-> calculateAccuracy(Slice(X, testStart, testEnd)) ]

RECURSIVE FoldsLoop(_, _, _, _, _)
\* for (let i = 0; i < folds; i++): the folds done, until one's training throws
FoldsLoop(X, folds, foldSize, i, done) ==
  IF i >= folds THEN [error |-> "none", folds |-> done]
  ELSE IF TrainThrows(FoldOf(X, i, foldSize).trainX)
  THEN [error |-> "TypeError", folds |-> done]
  ELSE FoldsLoop(X, folds, foldSize, i + 1, Append(done, FoldOf(X, i, foldSize)))

\* crossValidate(X, y, folds) for folds >= 1
crossValidate(X, folds) == FoldsLoop(X, folds, Len(X) \div folds, 0, <<>>)

\* mutant: the accuracy is recorded at the end of each block of 50 epochs
RecordsAccuracyLate(epoch) == (epoch + 1) % 50 = 0

\* if (epoch % 50 === 0)
RecordsAccuracy(epoch) == epoch % 50 = 0

(***************************************************************************)
(* The trainer as a state machine: call holds the running trainLinearModel *)
(* (its loop counter and history) or the finished call of another function *)
(***************************************************************************)
InitTrain ==
  /\ InitComponent
  /\ InitStorage
  /\ board = createEmptyBoard
  /\ currentPlayer = "X"
  /\ config = NoConfig
  /\ call = NoCall

CallCrossValidate(n, folds) ==
  /\ call = NoCall
  /\ call' = [op |-> "crossValidate", n |-> n, folds |-> folds,
              error |-> crossValidate(Samples(n), folds).error,
              result |-> crossValidate(Samples(n), folds).folds]
  /\ UNCHANGED <<board, currentPlayer, config, componentVars, storageVars>>

\* trainLinearModel(X, y, {epochs}) up to the first test of the epoch loop
StartTrainLinearModel(m, epochs) ==
  /\ call = NoCall
  /\ call' = [op |-> "trainLinearModel", m |-> m, epochs |-> epochs, epoch |-> 0,
              history |-> [losses |-> <<>>, accuracies |-> <<>>],
              returned |-> FALSE,
              error |-> IF TrainThrows(Samples(m)) THEN "TypeError" ELSE "none"]
  /\ UNCHANGED <<board, currentPlayer, config, componentVars, storageVars>>

\* one iteration of the gradient descent loop
TrainEpoch ==
  /\ call.op = "trainLinearModel"
  /\ call.error = "none"
  /\ ~call.returned
  /\ call.epoch < call.epochs
  /\ call' = [call EXCEPT
       !.epoch = call.epoch + 1,
       !.history = [losses |-> Append(call.history.losses, call.epoch),
                    accuracies |->
                      IF RecordsAccuracy(call.epoch)
                      THEN Append(call.history.accuracies,
                                  [epoch |-> call.epoch,
                                   accuracy |-> calculateAccuracy(Samples(call.m))])
                      ELSE call.history.accuracies]]
  /\ UNCHANGED <<board, currentPlayer, config, componentVars, storageVars>>

\* the loop test fails: return {weights, bias, featureWeights, history}
TrainReturn ==
  /\ call.op = "trainLinearModel"
  /\ call.error = "none"
  /\ ~call.returned
  /\ ~(call.epoch < call.epochs)
  /\ call' = [call EXCEPT !.returned = TRUE]
  /\ UNCHANGED <<board, currentPlayer, config, componentVars, storageVars>>

(***************************************************************************)
(* datasetLoader.parseDataset.  A text is a sequence of characters: a      *)
(* letter, a digit, the comma and the line feed.                           *)
(***************************************************************************)
LF == "LF"
Chars == {"h", "1", ",", LF}
MaxLen == 7

RECURSIVE Texts(_)
\* the texts of exactly n characters
Texts(n) ==
  IF n = 0 THEN {<<>>}
  ELSE {Append(t, c) : t \in Texts(n - 1), c \in Chars}

\* the texts of at most MaxLen characters
AllTexts == UNION {Texts(n) : n \in 0..MaxLen}

RECURSIVE TrimStart(_)
TrimStart(text) ==
  IF text # <<>> /\ Head(text) = LF THEN TrimStart(Tail(text)) ELSE text

RECURSIVE TrimEnd(_)
TrimEnd(text) ==
  IF text # <<>> /\ text[Len(text)] = LF
  THEN TrimEnd(SubSeq(text, 1, Len(text) - 1)) ELSE text

\* String.prototype.trim: the line feed is the only white space of Chars
Trim(text) == TrimEnd(TrimStart(text))

RECURSIVE SplitLoop(_, _, _, _, _)
SplitLoop(text, separator, i, current, parts) ==
  IF i > Len(text) THEN Append(parts, current)
  ELSE IF text[i] = separator
  THEN SplitLoop(text, separator, i + 1, <<>>, Append(parts, current))
  ELSE SplitLoop(text, separator, i + 1, Append(current, text[i]), parts)

\* String.prototype.split(separator): the empty text gives one empty part
Split(text, separator) == SplitLoop(text, separator, 1, <<>>, <<>>)

NaN == [nan |-> TRUE, value |-> 0]
Number(v) == [nan |-> FALSE, value |-> v]

RECURSIVE DigitsValue(_, _, _)
\* the value of the longest prefix of digits from position i, after acc
DigitsValue(v, i, acc) ==
  IF i <= Len(v) /\ v[i] = "1" THEN DigitsValue(v, i + 1, 10 * acc + 1) ELSE acc

\* parseFloat(v.trim()): the number written by the leading digits, NaN when
\* the first character is no digit
parseFloat(v) ==
  IF v # <<>> /\ v[1] = "1" THEN Number(DigitsValue(v, 1, 0)) ELSE NaN

ParseRow(line) ==
  [i \in 1..Len(Split(line, ",")) |-> parseFloat(Split(line, ",")[i])]

RECURSIVE RowsLoop(_, _, _, _, _)
\* for (let i = 1; i < lines.length; i++) over the 0-based lines
RowsLoop(csvLines, headers, i, features, labels) ==
  IF i >= Len(csvLines) THEN [features |-> features, labels |-> labels]
  ELSE IF Len(ParseRow(csvLines[i + 1])) = Len(headers)
  THEN RowsLoop(csvLines, headers, i + 1,
                Append(features, SubSeq(ParseRow(csvLines[i + 1]), 1,
                                        Len(ParseRow(csvLines[i + 1])) - 1)),
                Append(labels, ParseRow(csvLines[i + 1])[Len(ParseRow(csvLines[i + 1]))]))
  ELSE RowsLoop(csvLines, headers, i + 1, features, labels)

\* the returned object; features[0].length throws a TypeError when no row
\* was kept
DatasetOf(parsed, headers) ==
  IF parsed.features = <<>>
  THEN [error |-> "TypeError"]
  ELSE [error |-> "none", features |-> parsed.features, labels |-> parsed.labels,
        headers |-> SubSeq(headers, 1, Len(headers) - 1),
        sampleCount |-> Len(parsed.features),
        featureCount |-> Len(parsed.features[1])]

\* mutant: the loop over the lines starts at the header
parseDatasetWithHeader(csvText) ==
  DatasetOf(RowsLoop(Split(Trim(csvText), LF),
                     Split(Split(Trim(csvText), LF)[1], ","), 0, <<>>, <<>>),
            Split(Split(Trim(csvText), LF)[1], ","))

parseDataset(csvText) ==
  DatasetOf(RowsLoop(Split(Trim(csvText), LF),
                     Split(Split(Trim(csvText), LF)[1], ","), 1, <<>>, <<>>),
            Split(Split(Trim(csvText), LF)[1], ","))

\* parseDataset(csvText) on any text
CallParseDataset ==
  /\ call = NoCall
  /\ \E csvText \in AllTexts :
       call' = [op |-> "parseDataset", csvText |-> csvText,
                error |-> parseDataset(csvText).error,
                result |-> parseDataset(csvText)]
  /\ UNCHANGED <<board, currentPlayer, config, componentVars, storageVars>>

(***************************************************************************)
(* datasetLoader.splitDataset.  Sample i of the dataset is the feature row *)
(* <<"features", i>> with the label <<"label", i>>; testRatio is a number  *)
(* of RatioSteps-ths between 0 and 1.  Each Math.random() of the shuffle   *)
(* is a free choice of j in 0..i.                                          *)
(***************************************************************************)
MaxShuffled == 4
RatioSteps == 5

DatasetOfSize(n) ==
  [features |-> [k \in 1..n |-> <<"features", k - 1>>],
   labels |-> [k \in 1..n |-> <<"label", k - 1>>]]

\* mutant: indices[i] = indices[j] without the exchange
SwapOverwrite(indices, i, j) == [indices EXCEPT ![i + 1] = indices[j + 1]]

\* [indices[i], indices[j]] = [indices[j], indices[i]]
Swap(indices, i, j) ==
  [indices EXCEPT ![i + 1] = indices[j + 1], ![j + 1] = indices[i + 1]]

\* indices.slice(...).map(i => items[i])
MapIndices(indices, items) == [k \in 1..Len(indices) |-> items[indices[k] + 1]]

\* splitDataset up to the first test of the shuffle loop
StartSplitDataset(n, ratio) ==
  /\ call = NoCall
  /\ call' = [op |-> "splitDataset", dataset |-> DatasetOfSize(n), ratio |-> ratio,
              totalSamples |-> n,
              testSize |-> (n * ratio) \div RatioSteps,
              trainSize |-> n - ((n * ratio) \div RatioSteps),
              indices |-> [k \in 1..n |-> k - 1],
              i |-> n - 1, returned |-> FALSE, error |-> "none"]
  /\ UNCHANGED <<board, currentPlayer, config, componentVars, storageVars>>

\* one iteration of the Fisher-Yates loop
ShuffleStep ==
  /\ call.op = "splitDataset"
  /\ ~call.returned
  /\ call.i > 0
  /\ \E j \in 0..call.i :
       call' = [call EXCEPT !.indices = Swap(call.indices, call.i, j),
                            !.i = call.i - 1]
  /\ UNCHANGED <<board, currentPlayer, config, componentVars, storageVars>>

\* the loop is over: the two slices of the shuffled indices are returned
SplitReturn ==
  /\ call.op = "splitDataset"
  /\ ~call.returned
  /\ ~(call.i > 0)
  /\ call' = [op |-> "splitDataset", dataset |-> call.dataset, ratio |-> call.ratio,
              totalSamples |-> call.totalSamples,
              testSize |-> call.testSize, trainSize |-> call.trainSize,
              indices |-> call.indices, i |-> call.i,
              returned |-> TRUE, error |-> "none",
              result |->
                [train |-> [features |-> MapIndices(Slice(call.indices, 0, call.trainSize),
                                                    call.dataset.features),
                            labels |-> MapIndices(Slice(call.indices, 0, call.trainSize),
                                                  call.dataset.labels)],
                 test |-> [features |-> MapIndices(Slice(call.indices, call.trainSize,
                                                         Len(call.indices)),
                                                   call.dataset.features),
                           labels |-> MapIndices(Slice(call.indices, call.trainSize,
                                                       Len(call.indices)),
                                                 call.dataset.labels)]]]
  /\ UNCHANGED <<board, currentPlayer, config, componentVars, storageVars>>

(***************************************************************************)
(* datasetLoader.normalizeFeatures on matrices of finite numbers.  A       *)
(* normalized value is the exact quotient num / den.                       *)
(***************************************************************************)
MaxRows == 3
\* the numbers of features of a sample
ColumnCounts == {1, 2}
Values == {-1, 0, 2}

Matrices(rows, columns) == [1..rows -> [1..columns -> Values]]

RECURSIVE ColumnFold(_, _, _, _, _)
\* mins[i] (least = TRUE) or maxs[i] after the forEach over the samples
ColumnFold(features, i, k, acc, least) ==
  IF k > Len(features) THEN acc
  ELSE ColumnFold(features, i, k + 1,
                  IF least THEN Min(acc, features[k][i]) ELSE Max(acc, features[k][i]),
                  least)

\* mutant: the quotient is taken whatever the range
NormalizeValueAlways(value, min, max) == [num |-> value - min, den |-> max - min]

\* range === 0 ? 0 : (value - mins[i]) / range
NormalizeValue(value, min, max) ==
  IF max - min = 0 THEN [num |-> 0, den |-> 1]
  ELSE [num |-> value - min, den |-> max - min]

\* features[0].length throws a TypeError on an empty matrix
normalizeFeatures(features) ==
  IF features = <<>> THEN [error |-> "TypeError"]
  ELSE [error |-> "none",
        mins |-> [i \in 1..Len(features[1]) |-> ColumnFold(features, i, 1, Infinity, TRUE)],
        maxs |-> [i \in 1..Len(features[1]) |-> ColumnFold(features, i, 1, -Infinity, FALSE)],
        normalized |->
          [k \in 1..Len(features) |->
             [i \in 1..Len(features[k]) |->
                NormalizeValue(features[k][i],
                               ColumnFold(features, i, 1, Infinity, TRUE),
                               ColumnFold(features, i, 1, -Infinity, FALSE))]]]

CallNormalizeFeatures ==
  /\ call = NoCall
  /\ \E rows \in 0..MaxRows, columns \in ColumnCounts :
       \E features \in Matrices(rows, columns) :
         call' = [op |-> "normalizeFeatures", features |-> features,
                  error |-> normalizeFeatures(features).error,
                  result |-> normalizeFeatures(features)]
  /\ UNCHANGED <<board, currentPlayer, config, componentVars, storageVars>>

(***************************************************************************)
(* modelTrainer.exportModel / importModel.  An object is a record of the   *)
(* properties it has.                                                      *)
(***************************************************************************)
\* what trainLinearModel returns for the weights of a weight set
TrainedModel(w) ==
  [weights |-> << w.bias >> \o w.weights, bias |-> w.bias, featureWeights |-> w.weights]

TrainedModels == {TrainedModel(w) : w \in WeightSets}

FeatureNameLists ==
  { << "x_count", "o_count", "x_almost_win", "o_almost_win", "x_center", "x_corners" >>,
    << "a", "b", "c" >>,
    << >> }

\* new Date().toISOString() at the time of the export
Timestamps == {"2024-01-01T00:00:00.000Z", "2025-06-30T12:00:00.000Z"}

exportModel(model, featureNames, now) ==
  [weights |-> model.weights, bias |-> model.bias,
   featureWeights |-> model.featureWeights, featureNames |-> featureNames,
   timestamp |-> now, version |-> "1.0"]

importModel(modelJson) ==
  [weights |-> modelJson.weights, bias |-> modelJson.bias,
   featureWeights |-> modelJson.featureWeights]

\* importModel(exportModel(model, featureNames))
CallExportImport(model, featureNames, now) ==
  /\ call = NoCall
  /\ call' = [op |-> "importModel", model |-> model, featureNames |-> featureNames,
              exported |-> exportModel(model, featureNames, now),
              error |-> "none",
              result |-> importModel(exportModel(model, featureNames, now))]
  /\ UNCHANGED <<board, currentPlayer, config, componentVars, storageVars>>

NextTrain ==
  \/ \E n \in 0..MaxSamples, folds \in 1..MaxFolds : CallCrossValidate(n, folds)
  \/ \E m \in 0..MaxSamples, epochs \in 0..MaxEpochs : StartTrainLinearModel(m, epochs)
  \/ TrainEpoch
  \/ TrainReturn
  \/ CallParseDataset
  \/ \E n \in 0..MaxShuffled, ratio \in 0..RatioSteps : StartSplitDataset(n, ratio)
  \/ ShuffleStep
  \/ SplitReturn
  \/ CallNormalizeFeatures
  \/ \E model \in TrainedModels, featureNames \in FeatureNameLists, now \in Timestamps :
       CallExportImport(model, featureNames, now)

SpecTrain == InitTrain /\ [][NextTrain]_vars

\* the loop test and the loop body are always run when they can be
SpecTrainLive ==
  InitTrain /\ [][NextTrain]_vars /\ WF_vars(TrainEpoch) /\ WF_vars(TrainReturn)

(***************************************************************************)
(* Claims on the trainer and the dataset loader                            *)
(***************************************************************************)
Range(s) == {s[i] : i \in 1..Len(s)}

\* a sequence of consecutive sample indices
Contiguous(s) == \A i \in 1..(Len(s) - 1) : s[i + 1] = s[i] + 1

\* C18: for n samples and k folds, crossValidate uses k contiguous test folds
\* that are pairwise disjoint and together contain every sample exactly
\* once, and trains each fold on exactly the samples outside the fold's test
\* range.
C18_Partition ==
  call.op = "crossValidate" =>
    /\ call.error = "none"
    /\ Len(call.result) = call.folds
    /\ \A i \in 1..Len(call.result) :
         /\ Contiguous(call.result[i].testX)
         /\ Range(call.result[i].trainX) = (0..(call.n - 1)) \ Range(call.result[i].testX)
         /\ Len(call.result[i].trainX) = call.n - Len(call.result[i].testX)
    /\ \A i, j \in 1..Len(call.result) :
         i # j => Range(call.result[i].testX) \cap Range(call.result[j].testX) = {}
    /\ \A sample \in 0..(call.n - 1) :
         Cardinality({i \in 1..Len(call.result) : sample \in Range(call.result[i].testX)}) = 1

TrainingReturned == call.op = "trainLinearModel" /\ call.returned

\* C19: trainLinearModel with epochs = E on a dataset with samples terminates
\* after exactly E iterations of the loop; the losses of the returned history
\* are E entries, one per epoch in order, and its accuracies are one entry
\* for each epoch of 0..E-1 divisible by 50, in increasing epoch order.
C19_History ==
  /\ [](TrainingReturned =>
         /\ call.epoch = call.epochs
         /\ call.history.losses = [i \in 1..call.epochs |-> i - 1]
         /\ Range(call.history.accuracies)
              = {[epoch |-> e, accuracy |-> "percentage"] :
                   e \in {x \in 0..(call.epochs - 1) : x % 50 = 0}}
         /\ \A i \in 1..(Len(call.history.accuracies) - 1) :
              call.history.accuracies[i].epoch < call.history.accuracies[i + 1].epoch)
  /\ [](\A E \in 0..MaxEpochs :
         (call.op = "trainLinearModel" /\ call.error = "none" /\ call.epochs = E)
           => <>(TrainingReturned /\ call.epoch = E))

\* a returned training of 101 epochs: accuracies of the epochs 0, 50 and 100
C19_Witness ==
  /\ TrainingReturned
  /\ call.epochs = 101
  /\ Len(call.history.losses) = 101
  /\ Len(call.history.accuracies) = 3

CommaCount(line) == Cardinality({i \in 1..Len(line) : line[i] = ","})

\* the lines of the trimmed text; the first is the header
LinesOf(csvText) == Split(Trim(csvText), LF)

\* there are data rows and each has a column count other than the header's
NoValidRow(csvText) ==
  /\ Len(LinesOf(csvText)) >= 2
  /\ \A i \in 2..Len(LinesOf(csvText)) :
       CommaCount(LinesOf(csvText)[i]) # CommaCount(LinesOf(csvText)[1])

\* C20: parseDataset on a text whose data rows all have a column count other
\* than the header's reports a DatasetError; it neither returns a dataset nor
\* fails with another error.
C20_DatasetError ==
  (call.op = "parseDataset" /\ NoValidRow(call.csvText)) => call.error = "DatasetError"

\* the k-th smallest element of a set of numbers
Nth(S, k) == CHOOSE x \in S : Cardinality({y \in S : y < x}) = k - 1

\* the positions that bound the columns of a line: before its first
\* character, each comma, and after its last character
Bounds(line) == {0} \cup {i \in 1..Len(line) : line[i] = ","} \cup {Len(line) + 1}

\* the j-th column of a line, between two consecutive bounds
Column(line, j) ==
  SubSeq(line, Nth(Bounds(line), j) + 1, Nth(Bounds(line), j + 1) - 1)

\* the number a column reads as: as many digits 1 as it starts with
LeadingOnes(column) ==
  Cardinality({k \in 1..Len(column) : \A i \in 1..k : column[i] = "1"})

Repunit(k) == IF k = 0 THEN 0 ELSE (10 ^ k - 1) \div 9

ValueOf(column) ==
  IF LeadingOnes(column) = 0 THEN NaN ELSE Number(Repunit(LeadingOnes(column)))

\* the indices of the data rows with as many columns as the header
ValidRows(csvText) ==
  {i \in 2..Len(LinesOf(csvText)) :
     CommaCount(LinesOf(csvText)[i]) = CommaCount(LinesOf(csvText)[1])}

\* C21: when at least one data row is valid, parseDataset returns exactly the
\* data rows whose column count equals the header's, in input order, each
\* split into its features (all columns but the last) and its label (the last
\* column), features[i] and labels[i] from the same row; the other rows are
\* dropped and the load does not fail.
C21_ValidRows ==
  (call.op = "parseDataset" /\ ValidRows(call.csvText) # {}) =>
    LET valid == ValidRows(call.csvText)
        columns == CommaCount(LinesOf(call.csvText)[1]) + 1
    IN /\ call.error = "none"
       /\ Len(call.result.features) = Cardinality(valid)
       /\ Len(call.result.labels) = Cardinality(valid)
       /\ call.result.sampleCount = Cardinality(valid)
       /\ \A k \in 1..Cardinality(valid) :
            LET row == LinesOf(call.csvText)[Nth(valid, k)]
            IN /\ call.result.features[k] = [j \in 1..(columns - 1) |-> ValueOf(Column(row, j))]
               /\ call.result.labels[k] = ValueOf(Column(row, columns))

\* a text of a header and two data rows, one kept with a feature and a label
\* read as numbers, one dropped for its column count
C21_Witness ==
  /\ call.op = "parseDataset"
  /\ Len(LinesOf(call.csvText)) = 3
  /\ Cardinality(ValidRows(call.csvText)) = 1
  /\ call.error = "none"
  /\ call.result.features = << << Number(1) >> >>
  /\ call.result.labels = << Number(1) >>

SplitReturned == call.op = "splitDataset" /\ call.returned

\* C22: for n samples and test ratio r, splitDataset returns a train set of
\* n - floor(n*r) samples and a test set of floor(n*r) samples that together
\* contain every sample exactly once, each feature row paired with its own
\* label, whatever indices the shuffle draws.
C22_Split ==
  SplitReturned =>
    LET train == call.result.train
        test == call.result.test
        n == call.totalSamples
        floor == CHOOSE q \in 0..n :
                   q * RatioSteps <= n * call.ratio /\ n * call.ratio < (q + 1) * RatioSteps
    IN /\ Len(test.features) = floor /\ Len(test.labels) = floor
       /\ Len(train.features) = n - floor /\ Len(train.labels) = n - floor
       /\ \A k \in 1..Len(train.features) : train.features[k][2] = train.labels[k][2]
       /\ \A k \in 1..Len(test.features) : test.features[k][2] = test.labels[k][2]
       /\ \A sample \in 0..(n - 1) :
            Cardinality({k \in 1..Len(train.features) : train.features[k] = <<"features", sample>>})
            + Cardinality({k \in 1..Len(test.features) : test.features[k] = <<"features", sample>>})
            = 1

\* four samples split two and two after a shuffle that moved the first
\* sample into the test set
C22_Witness ==
  /\ SplitReturned
  /\ call.totalSamples = 4
  /\ Len(call.result.test.features) = 2
  /\ \E k \in 1..2 : call.result.test.features[k] = <<"features", 0>>
  /\ call.result.train.features[1] # <<"features", 0>>

Normalized == call.op = "normalizeFeatures" /\ call.error = "none"

ColumnValues(features, i) == {features[k][i] : k \in 1..Len(features)}

\* C23: normalizeFeatures maps every value of every column into [0, 1], maps
\* every value of a column whose minimum equals its maximum to 0, and never
\* divides by zero.
C23_UnitRange ==
  Normalized =>
    \A k \in 1..Len(call.features) : \A i \in 1..Len(call.features[k]) :
      LET v == call.result.normalized[k][i]
          least == SetMin(ColumnValues(call.features, i))
          greatest == SetMax(ColumnValues(call.features, i))
      IN /\ v.den > 0
         /\ 0 <= v.num /\ v.num <= v.den
         /\ least = greatest => v.num = 0
         /\ least # greatest =>
              v.num * (greatest - least) = (call.features[k][i] - least) * v.den

\* three samples of two columns: a constant column, and a column whose
\* middle value is normalized to 1/3
C23_Witness ==
  /\ Normalized
  /\ Len(call.features) = 3
  /\ Len(call.features[1]) = 2
  /\ Cardinality(ColumnValues(call.features, 1)) = 1
  /\ \A k \in 1..3 : call.result.normalized[k][1] = [num |-> 0, den |-> 1]
  /\ \E k \in 1..3 : call.result.normalized[k][2] = [num |-> 1, den |-> 3]

\* C24: importModel(exportModel(model, featureNames)) returns a snapshot
\* whose weights, bias and featureNames equal the exported model's weights
\* and bias and the featureNames given at export.
C24_RoundTrip ==
  call.op = "importModel" =>
    /\ call.result.weights = call.model.weights
    /\ call.result.bias = call.model.bias
    /\ "featureNames" \in DOMAIN call.result
    /\ call.result.featureNames = call.featureNames

(***************************************************************************)
(* gameHistory.js: the store of played games kept in localStorage under    *)
(* STORAGE_KEY.  JSON.stringify wraps a value as a text and JSON.parse     *)
(* unwraps it: the samples hold only finite integers and strings, which    *)
(* the round trip returns unchanged.  Date.now() reads clock, which        *)
(* advances by one tick with every call.                                   *)
(***************************************************************************)
JSONstringify(value) == [stored |-> TRUE, json |-> value]
JSONparse(text) == text.json

HistoryCap == 500

\* the moveHistory of the game in which `played` were played alternately, X first
RECURSIVE HistoryOf(_, _, _, _)
HistoryOf(b, played, player, entries) ==
  IF played = << >> THEN entries
  ELSE HistoryOf(makeMove(b, Head(played), player), Tail(played), getOpponent(player),
                 Append(entries, [player |-> player, move |-> Head(played),
                                  board |-> makeMove(b, Head(played), player)]))

GameOf(played) ==
  LET entries == HistoryOf(createEmptyBoard, played, "X", << >>)
  IN [moveHistory |-> entries,
      winner |-> isTerminal(entries[Len(entries)].board).winner]

\* the games saved: one won by X, one won by O, a draw, and an empty move list
GameNames == {"XWin", "OWin", "Draw", "Empty"}

Game(name) ==
  CASE name = "XWin" -> GameOf(<<0, 3, 1, 4, 2>>)
    [] name = "OWin" -> GameOf(<<0, 3, 1, 4, 8, 5>>)
    [] name = "Draw" -> GameOf(<<0, 1, 2, 4, 3, 5, 7, 6, 8>>)
    [] name = "Empty" -> [moveHistory |-> << >>, winner |-> "X"]

\* the first MaxVaried calls and the calls made on a store within one sample
\* of the cap save any of the games; the calls in between save the game won
\* by X
MaxVaried == 2

Varied(tick) == tick < MaxVaried \/ tick >= HistoryCap - 1

getGameHistory ==
  IF ~localStorage.tictactoe_game_history.stored THEN << >>
  ELSE JSONparse(localStorage.tictactoe_game_history)

\* mutant: drops the newest sample instead of the oldest
ShiftNewest(history) ==
  IF Len(history) > HistoryCap THEN SubSeq(history, 1, Len(history) - 1) ELSE history

\* if (history.length > 500) history.shift()
Shift(history) ==
  IF Len(history) > HistoryCap THEN Tail(history) ELSE history

gameSample(playedMoves, winner, timestamp) ==
  [features |-> extractDatasetFeatures(playedMoves[Len(playedMoves)].board, "X"),
   label |-> IF winner = "X" THEN 1 ELSE -1,
   timestamp |-> timestamp,
   moves |-> Len(playedMoves)]

saveGameToHistory(name) ==
  /\ clock < HistoryCap + MaxVaried
  /\ Varied(clock) \/ name = "XWin"
  /\ clock' = clock + 1
  /\ \E game \in {Game(name)} :
       /\ call' = [op |-> "saveGameToHistory", moveHistory |-> game.moveHistory,
                   winner |-> game.winner, timestamp |-> clock, error |-> "none"]
       /\ IF game.winner = "draw" \/ Len(game.moveHistory) = 0
          THEN UNCHANGED localStorage
          ELSE localStorage' =
                 [localStorage EXCEPT !.tictactoe_game_history =
                    JSONstringify(Shift(Append(getGameHistory,
                      gameSample(game.moveHistory, game.winner, clock))))]
  /\ UNCHANGED <<board, currentPlayer, config, componentVars, MODEL_WEIGHTS>>

NextHistory == \E name \in GameNames : saveGameToHistory(name)

SpecHistory == Init /\ [][NextHistory]_vars

Last(s) == s[Len(s)]
Front(s) == SubSeq(s, 1, Len(s) - 1)

\* what a saveGameToHistory call does to the stored history
SavedStep ==
  (call'.op = "saveGameToHistory" /\ clock' = clock + 1) =>
    LET before == getGameHistory
        after == IF ~localStorage'.tictactoe_game_history.stored THEN << >>
                 ELSE JSONparse(localStorage'.tictactoe_game_history)
    IN IF call'.winner = "draw" \/ call'.moveHistory = << >>
       THEN after = before
       ELSE /\ Last(after).label = (IF call'.winner = "X" THEN 1 ELSE -1)
            /\ Last(after).timestamp = call'.timestamp
            /\ Last(after).moves = Len(call'.moveHistory)
            /\ Front(after) = (IF Len(before) = HistoryCap THEN Tail(before) ELSE before)

\* C25: starting from an empty store, the stored history never holds more
\* than 500 samples, every sample is labelled +1 or -1, the samples are in
\* save order, a call with a draw or an empty move list stores nothing, and a
\* call with a decisive game appends its sample (+1 for X, -1 for O) after
\* the samples already stored, dropping the oldest one when 500 are stored.
C25_History ==
  /\ [](/\ Len(getGameHistory) <= HistoryCap
        /\ \A i \in 1..Len(getGameHistory) : getGameHistory[i].label \in {1, -1}
        /\ \A i \in 1..(Len(getGameHistory) - 1) :
             getGameHistory[i].timestamp < getGameHistory[i + 1].timestamp)
  /\ [][SavedStep]_vars

\* the store is full, its oldest sample was evicted, and the last call stored
\* a game won by O
C25_Witness ==
  /\ Len(getGameHistory) = HistoryCap
  /\ getGameHistory[1].timestamp > 0
  /\ call.op = "saveGameToHistory"
  /\ call.winner = "O"
  /\ Last(getGameHistory).label = -1

(***************************************************************************)
(* mlEval.js: the module variable MODEL_WEIGHTS, replaced by               *)
(* updateMLWeights and loadSavedWeights and read by every mlEvaluate call. *)
(* A model is a record of the properties it has; null is NoModel.          *)
(***************************************************************************)
NoModel == [missing |-> TRUE]

\* the argument of updateMLWeights: no model, a model without featureWeights,
\* a model without bias, and the trained models of every weight set
Models ==
  {NoModel, [weights |-> <<1>>, bias |-> 1],
   [weights |-> <<0, 5, -5, 36, -44, 12, 7>>, featureWeights |-> <<5, -5, 36, -44, 12, 7>>]}
  \cup TrainedModels

\* mutant: accepts a model with any number of feature weights
QualifiesAnyLength(model) ==
  /\ "missing" \notin DOMAIN model
  /\ "featureWeights" \in DOMAIN model

\* model && model.featureWeights && model.featureWeights.length >= 6
Qualifies(model) ==
  /\ "missing" \notin DOMAIN model
  /\ "featureWeights" \in DOMAIN model
  /\ Len(model.featureWeights) >= 6

\* model.bias || 0
BiasOrZero(model) ==
  IF "bias" \in DOMAIN model /\ model.bias # 0 THEN model.bias ELSE 0

updateMLWeights(model) ==
  /\ call' = [op |-> "updateMLWeights", model |-> model, error |-> "none"]
  /\ IF Qualifies(model)
     THEN /\ MODEL_WEIGHTS' = [bias |-> BiasOrZero(model), weights |-> model.featureWeights]
          /\ localStorage' = [localStorage EXCEPT !.ml_model =
                                JSONstringify([bias |-> BiasOrZero(model),
                                               weights |-> model.featureWeights])]
     ELSE UNCHANGED <<MODEL_WEIGHTS, localStorage>>
  /\ UNCHANGED <<board, currentPlayer, config, componentVars, clock>>

loadSavedWeights ==
  /\ call' = [op |-> "loadSavedWeights", error |-> "none",
              result |-> localStorage.ml_model.stored]
  /\ MODEL_WEIGHTS' = IF localStorage.ml_model.stored
                      THEN JSONparse(localStorage.ml_model) ELSE MODEL_WEIGHTS
  /\ UNCHANGED <<board, currentPlayer, config, componentVars, localStorage, clock>>

\* the positions that mlEvaluate is called on: the prefixes of the openings
\* and the end of a game won by X
EvaluatedBoards ==
  {PlayOut(createEmptyBoard, SubSeq(o, 1, k), "X") : o \in Openings, k \in 0..3}
  \cup {PlayOut(createEmptyBoard, <<0, 3, 1, 4, 2>>, "X")}

\* mlEvaluate(position, player), reading MODEL_WEIGHTS
CallMlEvaluate(position, player) ==
  /\ call' = [op |-> "mlEvaluate", board |-> position, player |-> player,
              error |-> "none",
              result |-> mlEvaluate(position, player, MODEL_WEIGHTS)]
  /\ UNCHANGED <<board, currentPlayer, config, componentVars, storageVars>>

NextWeights ==
  \/ \E model \in Models : updateMLWeights(model)
  \/ loadSavedWeights
  \/ \E position \in EvaluatedBoards, player \in Marks : CallMlEvaluate(position, player)

SpecWeights == Init /\ [][NextWeights]_vars

\* the weights supplied by the most recent updateMLWeights call that had at
\* least 6 feature weights: the persisted snapshot, or the defaults
Supplied ==
  IF localStorage.ml_model.stored THEN JSONparse(localStorage.ml_model)
  ELSE DefaultModelWeights

\* what a step does to the active weights and to the persisted snapshot
WeightsStep ==
  IF call'.op = "updateMLWeights"
       /\ "missing" \notin DOMAIN call'.model
       /\ "featureWeights" \in DOMAIN call'.model
       /\ Len(call'.model.featureWeights) >= 6
  THEN /\ MODEL_WEIGHTS'.weights = call'.model.featureWeights
       /\ MODEL_WEIGHTS'.bias =
            (IF "bias" \in DOMAIN call'.model THEN call'.model.bias ELSE 0)
       /\ localStorage'.ml_model.stored
       /\ JSONparse(localStorage'.ml_model) = MODEL_WEIGHTS'
  ELSE UNCHANGED <<MODEL_WEIGHTS, localStorage>>

\* C26: every mlEvaluate call scores with the bias and feature weights
\* supplied by the most recent updateMLWeights call that had at least 6
\* feature weights, or with the defaults when there was none; a call of
\* updateMLWeights with no model or with fewer than 6 feature weights changes
\* neither the active weights nor the persisted snapshot.
C26_ActiveWeights ==
  /\ [](call.op = "mlEvaluate" =>
          call.result = mlEvaluate(call.board, call.player, Supplied))
  /\ [][WeightsStep]_vars

\* a non-terminal position scored with supplied weights that are not the
\* defaults, to a score that the defaults would not give
C26_Witness ==
  /\ call.op = "mlEvaluate"
  /\ ~isTerminal(call.board).terminal
  /\ localStorage.ml_model.stored
  /\ MODEL_WEIGHTS # DefaultModelWeights
  /\ call.result # mlEvaluate(call.board, call.player, DefaultModelWeights)

(***************************************************************************)
(* The TicTacToe component.  Each handler runs to completion and the       *)
(* component re-renders before the next event, so a handler reads the      *)
(* state of the latest render; a setTimeout callback keeps the arguments   *)
(* and the moveHistory of the render that scheduled it.  The settings      *)
(* dialog covers the board and the buttons while it is shown.  The         *)
(* displayed moveEvaluations, winningLine and toasts are not modelled.     *)
(***************************************************************************)
\* useState of gameConfig
DefaultGameConfig ==
  [humanPlayer |-> "X", aiPlayer |-> "O", difficulty |-> "normal",
   evaluationType |-> "classical"]

\* GameSettings.handleStart: aiPlayer is the mark the human did not choose
StartConfig(humanPlayer, difficulty, evaluationType) ==
  [humanPlayer |-> humanPlayer, aiPlayer |-> getOpponent(humanPlayer),
   difficulty |-> difficulty, evaluationType |-> evaluationType]

\* the configurations started from the dialog: either mark for the human,
\* either evaluation type, the shallowest search
GameConfigs ==
  {StartConfig("X", "easy", "classical"), StartConfig("O", "easy", "ml-basic")}

\* presses of Start Game and Reset Game in a behaviour
MaxGames == 2

\* the cells the human clicks
ClickCells == {1, 3}

getEvaluationFunction(gameConfig) ==
  IF gameConfig.evaluationType = "classical"
  THEN [name |-> "classicalEvaluate", weights |-> MODEL_WEIGHTS]
  ELSE [name |-> "mlEvaluate", weights |-> MODEL_WEIGHTS]

getClassicalDepth(difficulty) ==
  CASE difficulty = "easy" -> 1
    [] difficulty = "normal" -> 3
    [] difficulty = "hard" -> 9
    [] OTHER -> 3

getMLDepth(difficulty) ==
  CASE difficulty = "easy" -> 1
    [] difficulty = "normal" -> 3
    [] difficulty = "hard" -> 9
    [] OTHER -> 3

getSearchDepth(gameConfig) ==
  IF gameConfig.evaluationType = "classical"
  THEN getClassicalDepth(gameConfig.difficulty)
  ELSE getMLDepth(gameConfig.difficulty)

InitGame ==
  /\ InitComponent
  /\ InitStorage
  /\ board = createEmptyBoard
  /\ currentPlayer = "X"
  /\ config = DefaultGameConfig
  /\ call = NoCall

\* setTimeout callbacks pending, in the order they were scheduled
StartTimer(gameConfig) ==
  [kind |-> "start", delay |-> 500, config |-> gameConfig, moveHistory |-> moveHistory]

EvaluationsTimer(gameConfig) ==
  [kind |-> "evaluations", delay |-> 100, config |-> gameConfig]

\* mutant: the callback places the mark of the player who has just moved
MoveTimerSameMark(currentBoard, player, gameConfig, history) ==
  [kind |-> "move", delay |-> 600, currentBoard |-> currentBoard,
   player |-> getOpponent(player), config |-> gameConfig, moveHistory |-> history]

MoveTimer(currentBoard, player, gameConfig, history) ==
  [kind |-> "move", delay |-> 600, currentBoard |-> currentBoard, player |-> player,
   config |-> gameConfig, moveHistory |-> history]

\* a callback is run once no callback scheduled before it is due as early
Due(i) ==
  /\ i \in 1..Len(timers)
  /\ \A j \in 1..(i - 1) : timers[j].delay > timers[i].delay

Without(i) == SubSeq(timers, 1, i - 1) \o SubSeq(timers, i + 1, Len(timers))

\* the settings dialog is closed without starting a game
CloseSettings ==
  /\ showSettings
  /\ showSettings' = FALSE
  /\ call' = NoCall
  /\ UNCHANGED <<board, currentPlayer, config, gameStatus, gameWinner, thinking,
                 moveHistory, timers, games, storageVars>>

resetGame ==
  /\ ~showSettings
  /\ games < MaxGames
  /\ games' = games + 1
  /\ board' = createEmptyBoard
  /\ currentPlayer' = "X"
  /\ gameStatus' = "playing"
  /\ gameWinner' = null
  /\ moveHistory' = << >>
  /\ call' = NoCall
  /\ UNCHANGED <<config, thinking, showSettings, timers, storageVars>>

\* Settings is pressed when the dialog is not shown, then Start Game
startGame(gameConfig) ==
  /\ games < MaxGames
  /\ games' = games + 1
  /\ config' = gameConfig
  /\ showSettings' = FALSE
  /\ board' = createEmptyBoard
  /\ currentPlayer' = "X"
  /\ gameStatus' = "playing"
  /\ gameWinner' = null
  /\ moveHistory' = << >>
  /\ timers' = Append(timers, IF gameConfig.aiPlayer = "X" THEN StartTimer(gameConfig)
                              ELSE EvaluationsTimer(gameConfig))
  /\ call' = NoCall
  /\ UNCHANGED <<thinking, storageVars>>

\* handleGameEnd(terminal) when terminal.terminal, setCurrentPlayer otherwise
AfterMove(newBoard, player) ==
  LET terminal == isTerminal(newBoard) IN
  /\ gameStatus' = IF ~terminal.terminal THEN gameStatus
                   ELSE IF terminal.winner = "draw" THEN "draw" ELSE "won"
  /\ gameWinner' = IF terminal.terminal /\ terminal.winner # "draw"
                   THEN terminal.winner ELSE gameWinner
  /\ currentPlayer' = IF terminal.terminal THEN currentPlayer ELSE getOpponent(player)

handleCellClick(index) ==
  /\ ~showSettings
  /\ gameStatus = "playing" /\ ~thinking
  /\ board[index] = null
  /\ currentPlayer = config.humanPlayer
  /\ \E newBoard \in {makeMove(board, index, currentPlayer)} :
       /\ board' = newBoard
       /\ moveHistory' = Append(moveHistory, [player |-> currentPlayer, move |-> index,
                                              board |-> newBoard])
       /\ AfterMove(newBoard, currentPlayer)
       /\ IF isTerminal(newBoard).terminal
          THEN UNCHANGED <<thinking, timers>>
          ELSE /\ thinking' = TRUE
               /\ timers' = Append(timers, MoveTimer(newBoard, getOpponent(currentPlayer),
                                                     config, moveHistory))
  /\ call' = NoCall
  /\ UNCHANGED <<config, showSettings, games, storageVars>>

\* the callback of startGame, 500 ms: makeAIMove(createEmptyBoard(), 'X', config)
FireStart ==
  \E i \in 1..Len(timers) :
    /\ Due(i)
    /\ timers[i].kind = "start"
    /\ thinking' = TRUE
    /\ timers' = Append(Without(i), MoveTimer(createEmptyBoard, "X", timers[i].config,
                                               timers[i].moveHistory))
    /\ call' = NoCall
    /\ UNCHANGED <<board, currentPlayer, config, gameStatus, gameWinner,
                   moveHistory, showSettings, games, storageVars>>

\* the callback of startGame, 100 ms: setMoveEvaluations(initialEvals)
FireEvaluations ==
  \E i \in 1..Len(timers) :
    /\ Due(i)
    /\ timers[i].kind = "evaluations"
    /\ timers' = Without(i)
    /\ call' = NoCall
    /\ UNCHANGED <<board, currentPlayer, config, gameStatus, gameWinner, thinking,
                   moveHistory, showSettings, games, storageVars>>

\* the callback of makeAIMove, 600 ms
makeAIMove ==
  \E i \in 1..Len(timers) :
    /\ Due(i)
    /\ timers[i].kind = "move"
    /\ \E found \in {findBestMove(timers[i].currentBoard, timers[i].player,
                                   getEvaluationFunction(timers[i].config),
                                   getSearchDepth(timers[i].config))} :
         /\ call' = [op |-> "makeAIMove", player |-> timers[i].player,
                     bestMove |-> found.bestMove, error |-> "none"]
         /\ IF found.bestMove # nullMove
            THEN \E newBoard \in {makeMove(timers[i].currentBoard, found.bestMove,
                                        timers[i].player)} :
                /\ board' = newBoard
                /\ moveHistory' = Append(timers[i].moveHistory,
                                         [player |-> timers[i].player,
                                          move |-> found.bestMove, board |-> newBoard])
                /\ AfterMove(newBoard, timers[i].player)
            ELSE UNCHANGED <<board, moveHistory, gameStatus, gameWinner, currentPlayer>>
    /\ thinking' = FALSE
    /\ timers' = Without(i)
    /\ UNCHANGED <<config, showSettings, games, storageVars>>

NextGame ==
  \/ CloseSettings
  \/ resetGame
  \/ \E gameConfig \in GameConfigs : startGame(gameConfig)
  \/ \E index \in ClickCells : handleCellClick(index)
  \/ FireStart
  \/ FireEvaluations
  \/ makeAIMove

SpecGame == InitGame /\ [][NextGame]_vars

\* what makeAIMove's callback does to the timers and to thinking whatever
\* the search returns: the steps of makeAIMove are the steps of NextGame
\* that satisfy it, and it is enabled exactly when makeAIMove is
MoveCallbackRuns ==
  \E i \in 1..Len(timers) :
    /\ Due(i)
    /\ timers[i].kind = "move"
    /\ timers' = Without(i)
    /\ thinking' = FALSE

\* every pending callback is eventually run
SpecGameLive ==
  /\ InitGame
  /\ [][NextGame]_vars
  /\ WF_vars(FireStart)
  /\ WF_vars(FireEvaluations)
  /\ WF_<<timers, thinking>>(MoveCallbackRuns)

\* C27: in every reachable state of the game component the board holds as
\* many X as O marks, or exactly one more X than O.
C27_Alternation ==
  LET xs == Cardinality({i \in Cells : board[i] = "X"})
      os == Cardinality({i \in Cells : board[i] = "O"})
  IN xs = os \/ xs = os + 1

\* a later game in which the human and the AI have each moved twice, while
\* moveHistory holds fewer entries than the board holds marks
C27_Witness ==
  /\ games > 0
  /\ gameStatus = "playing"
  /\ CountMarks(board) >= 4
  /\ Len(moveHistory) < CountMarks(board)

\* the last event was a callback of makeAIMove that placed a mark
AIPlacedMark == call.op = "makeAIMove" /\ call.bestMove # nullMove

\* C28: whenever a game is in progress and the current player is the AI's
\* mark, the AI eventually places a mark on the board, given that every
\* pending timer eventually fires.
C28_AIEventuallyMoves ==
  (gameStatus = "playing" /\ currentPlayer = config.aiPlayer /\ ~AIPlacedMark)
    ~> AIPlacedMark

\* C29: after Reset Game the board is empty and stays empty until a move of
\* the new game is made: the first change of an empty board puts exactly one
\* mark on it, never an earlier board with a further move.
C29_EmptyUntilNewMove ==
  [][(board = createEmptyBoard /\ board' # board) => CountMarks(board') = 1]_vars

\* the boards of the entries of history follow from one another, starting
\* from `from`, each by the move of its entry
RECURSIVE Chained(_, _)
Chained(from, history) ==
  \/ history = << >>
  \/ /\ from[Head(history).move] = null
     /\ Head(history).board = makeMove(from, Head(history).move, Head(history).player)
     /\ Chained(Head(history).board, Tail(history))

\* C30: in a game without a reset, moveHistory holds exactly one entry per
\* mark on the board, in the order the moves were played, each with the board
\* right after that move, the last one with the current board.
C30_HistoryComplete ==
  games = 0 =>
    /\ Len(moveHistory) = CountMarks(board)
    /\ Chained(createEmptyBoard, moveHistory)
    /\ moveHistory # << >> => moveHistory[Len(moveHistory)].board = board

====
